---- MODULE Spec2Model ----
(***************************************************************************)
(* Micro-grid digital twin: batteries, grid conditioners, EV population    *)
(* and the per-tick orchestrator (grid_simulation/).                       *)
(*                                                                         *)
(* All quantities are integers in fixed model units:                       *)
(*   power        1 unit = 40 MW                                           *)
(*   duration     1 unit = 15 min (the driver's sim_step_minutes)          *)
(*   energy       1 unit = 10 MWh  (power unit x duration unit)            *)
(*   SOC, SOH     1 unit = 1 %                                             *)
(*   voltage      1 unit = 50 V,  current 1 unit = 1 kA                    *)
(*   temperature  1 unit = 1/36 degC                                       *)
(*   money        1 unit = 0.5 INR                                         *)
(*   efficiency   a fraction [num, den]                                    *)
(* Every source coefficient is restated in these units next to the         *)
(* formula that uses it; divisions that floating point would round are     *)
(* floored.                                                                *)
(***************************************************************************)
EXTENDS Integers, Sequences, FiniteSets, TLC

\* ------------------------------------------------------------------ bounds
MaxOps == 3          \* direct battery API calls per behaviour
NumEvs == 3          \* electric vehicles
MaxGcOps == 3        \* conditioner constructor and transfer calls
MaxSteps == 5        \* grid ticks and topology events per behaviour
MaxRoutingOps == 4   \* routing manager calls per behaviour
MaxCostCalls == 2    \* repeated CostCalculator calls with the same arguments
MaxGenOps == 2       \* generate calls on one generation unit
MaxVizTicks == 2     \* ticks run beside the visualization thread
MaxLoopRuns == 3     \* runs of the battery loop on one bess_list
MaxBillingTicks == 3 \* ticks of the import billing on one grid
MaxEvCalls == 4      \* calls made on one electric vehicle

\* ---------------------------------------------------------------- helpers
Min2(a, b) == IF a < b THEN a ELSE b
Max2(a, b) == IF a > b THEN a ELSE b
Abs(x) == IF x < 0 THEN -x ELSE x

\* ------------------------------------------------------------- cost model
\* A timestamp: minutes since midnight and month number.
Noon    == [hm |-> 720,  month |-> 10]
Evening == [hm |-> 1140, month |-> 6]
Night   == [hm |-> 1380, month |-> 10]
TimeSet == {Noon, Evening, Night}
BatteryTimes == {Noon, Evening}

\* "HH:MM" strings compare like minutes since midnight; multiplier x10.
get_time_multiplier(t) ==
    IF 1080 <= t.hm /\ t.hm <= 1320 THEN 15
    ELSE IF t.hm >= 1320 \/ t.hm <= 360 THEN 7
    ELSE 10

\* Summer is April..September; multiplier x10.
get_seasonal_multiplier(t) ==
    IF t.month \in 4..9 THEN 12 ELSE 9

\* Default tariff table, in paise per kWh.
charging_cost_per_kwh == 650
discharging_cost_per_kwh == 50
storage_cost_per_kwh_hour == 10

\* energy[10 MWh] * rate[paise/kWh] * tm/10 * sm/10 = INR; x2 in half-INR.
\* Every value is a multiple of 0.01 INR, so round(total, 2) keeps it.
calculate_battery_charging_cost(energy_kwh, duration_h, t) ==
    2 * energy_kwh * charging_cost_per_kwh
      * get_time_multiplier(t) * get_seasonal_multiplier(t)

calculate_battery_discharging_cost(energy_kwh, duration_h, t) ==
    2 * energy_kwh * discharging_cost_per_kwh
      * get_time_multiplier(t) * get_seasonal_multiplier(t)

\* duration_h is in quarter hours: energy * (d/4) h * rate, x2 in half-INR.
calculate_battery_storage_cost(energy_kwh, duration_h, t) ==
    (energy_kwh * duration_h * storage_cost_per_kwh_hour
      * get_time_multiplier(t) * get_seasonal_multiplier(t)) \div 2

\* A dictionary lookup that may raise KeyError; keys are written as
\* <<prefix, suffix>>, the two parts the code formats them from.
generation_costs ==
    [k \in {<<"solar", "_generation_cost_per_kwh">>,
            <<"wind", "_generation_cost_per_kwh">>,
            <<"external_grid", "_cost_per_kwh">>} |->
        IF k[1] = "solar" THEN 250 ELSE IF k[1] = "wind" THEN 320 ELSE 800]

grid_operation_costs ==
    [k \in {<<"transmission", "_cost_per_kwh">>,
            <<"distribution", "_cost_per_kwh">>,
            <<"substation", "_cost_per_kwh">>} |->
        IF k[1] = "transmission" THEN 80
        ELSE IF k[1] = "distribution" THEN 120 ELSE 30]

consumer_costs ==
    [k \in {<<"house", "_consumption_cost_per_kwh">>,
            <<"industry", "_consumption_cost_per_kwh">>,
            <<"ev_charging", "_cost_per_kwh">>} |->
        IF k[1] = "house" THEN 750
        ELSE IF k[1] = "industry" THEN 680 ELSE 850]

\* A cost call's outcome: the exception it raised ("none": it returned) and
\* total_cost_inr. The energy is a power held for the hour the code assumes
\* (40 MWh per unit): 8 * energy * rate * tm * sm half-INR.
Priced(table, key, energy_kwh, t) ==
    IF key \in DOMAIN table
    THEN [raised |-> "none",
          total |-> 8 * energy_kwh * table[key]
                      * get_time_multiplier(t) * get_seasonal_multiplier(t)]
    ELSE [raised |-> "KeyError", total |-> 0]

\* calculate_generation_cost with the generation table the calculator
\* loaded: the default one, or the one of a cost_config.json.
generation_cost_in(table, energy_kwh, generation_type, t) ==
    Priced(table, <<generation_type, "_generation_cost_per_kwh">>,
           energy_kwh, t)

calculate_generation_cost(energy_kwh, generation_type, t) ==
    generation_cost_in(generation_costs, energy_kwh, generation_type, t)

calculate_grid_operation_cost(energy_kwh, operation_type, t) ==
    Priced(grid_operation_costs,
           <<operation_type, "_cost_per_kwh">>, energy_kwh, t)

calculate_consumer_cost(energy_kwh, consumer_type, t) ==
    Priced(consumer_costs,
           <<consumer_type, "_consumption_cost_per_kwh">>, energy_kwh, t)

calculate_external_grid_cost(energy_kwh, t) ==
    calculate_generation_cost(energy_kwh, "external_grid", t)

\* ---------------------------------------------------------------- battery
EffDefault == [num |-> 19, den |-> 20]      \* 0.95
EffOne     == [num |-> 1,  den |-> 1]

\* Constructor arguments; max_*_power_kw = 0 stands for None (not given).
BatteryConfigs ==
    { [capacity_kwh |-> 100, rated_voltage |-> 800, rated_power_kw |-> 40,
       max_charge_power_kw |-> 0, max_discharge_power_kw |-> 0,
       charge_efficiency |-> EffDefault, discharge_efficiency |-> EffDefault],
      [capacity_kwh |-> 100, rated_voltage |-> 800, rated_power_kw |-> 40,
       max_charge_power_kw |-> 20, max_discharge_power_kw |-> 0,
       charge_efficiency |-> EffOne, discharge_efficiency |-> EffOne] }

BaseBattery(c) ==
    [ capacity_kwh |-> c.capacity_kwh,
      rated_voltage |-> c.rated_voltage,
      rated_power_kw |-> c.rated_power_kw,
      max_charge_power_kw |->
          IF c.max_charge_power_kw # 0 THEN c.max_charge_power_kw
          ELSE c.rated_power_kw,
      max_discharge_power_kw |->
          IF c.max_discharge_power_kw # 0 THEN c.max_discharge_power_kw
          ELSE c.rated_power_kw,
      charge_efficiency |-> c.charge_efficiency,
      discharge_efficiency |-> c.discharge_efficiency,
      soc |-> 100,
      soh |-> 100,
      voltage |-> c.rated_voltage,
      current |-> 0,
      power |-> 0,
      temperature |-> 900,                  \* 25.0 degC
      remaining_capacity |-> c.capacity_kwh,
      cycle_count |-> 0,
      mode |-> "idle",
      total_charging_cost |-> 0,
      total_discharging_cost |-> 0,
      total_storage_cost |-> 0,
      current_operation_cost |-> 0 ]

\* |P| * 1000 / max(V, 1e-6): 40 MW / 50 V = 800 kA per power unit per
\* voltage unit; below one voltage unit the 1e-6 V floor applies.
battery_current(power_kw, voltage) ==
    IF voltage >= 1 THEN (Abs(power_kw) * 800) \div voltage
    ELSE Abs(power_kw) * 800 * 50000000

\* internal_resistance 0.05 Ohm: 1 kA * 0.05 Ohm = 50 V = 1 voltage unit.
\* 0.01 * I^2 * R * d / 3600 = 1.25/36 degC per kA^2 per quarter hour.
\* 0.0001 * 40000 kW * 0.25 h = 1 % SOH per power unit per quarter hour.
\* Mutant: the SOH floor at 0 is missing.
update_operating_conditions_no_floor(b, power_kw, duration_h, charging) ==
    LET cur == battery_current(power_kw, b.voltage)
        v   == IF charging THEN b.rated_voltage + cur
               ELSE b.rated_voltage - cur
    IN  [b EXCEPT !.current = cur,
                  !.temperature = @ + (5 * cur * cur * duration_h) \div 4,
                  !.voltage = IF v < 0 THEN 0 ELSE v,
                  !.soh = @ - Abs(power_kw) * duration_h]

update_operating_conditions(b, power_kw, duration_h, charging) ==
    LET cur == battery_current(power_kw, b.voltage)
        v   == IF charging THEN b.rated_voltage + cur
               ELSE b.rated_voltage - cur
        h   == b.soh - Abs(power_kw) * duration_h
    IN  [b EXCEPT !.current = cur,
                  !.temperature = @ + (5 * cur * cur * duration_h) \div 4,
                  !.voltage = IF v < 0 THEN 0 ELSE v,
                  !.soh = IF h < 0 THEN 0 ELSE h]

\* Mutant: remaining_capacity is not capped at capacity_kwh.
charge_no_cap(b, power_kw, duration_h, sim_time) ==
    LET p  == IF power_kw > b.max_charge_power_kw
              THEN b.max_charge_power_kw ELSE power_kw
        energy_added ==
              (p * duration_h * b.charge_efficiency.num)
                  \div b.charge_efficiency.den
        rc == b.remaining_capacity + energy_added
        cost == calculate_battery_charging_cost(energy_added, duration_h,
                                                sim_time)
        b1 == [b EXCEPT !.remaining_capacity = rc,
                        !.soc = (rc * 100) \div b.capacity_kwh,
                        !.mode = "charging",
                        !.power = p,
                        !.current_operation_cost = cost,
                        !.total_charging_cost = @ + cost]
    IN  update_operating_conditions(b1, p, duration_h, TRUE)

\* Mutant: the energy is computed from the requested power, the limit is
\* applied to the reported power only.
charge_clamp_late(b, power_kw, duration_h, sim_time) ==
    LET p  == IF power_kw > b.max_charge_power_kw
              THEN b.max_charge_power_kw ELSE power_kw
        energy_added ==
              (power_kw * duration_h * b.charge_efficiency.num)
                  \div b.charge_efficiency.den
        rc == Min2(b.capacity_kwh, b.remaining_capacity + energy_added)
        cost == calculate_battery_charging_cost(energy_added, duration_h,
                                                sim_time)
        b1 == [b EXCEPT !.remaining_capacity = rc,
                        !.soc = (rc * 100) \div b.capacity_kwh,
                        !.mode = "charging",
                        !.power = p,
                        !.current_operation_cost = cost,
                        !.total_charging_cost = @ + cost]
    IN  update_operating_conditions(b1, p, duration_h, TRUE)

charge(b, power_kw, duration_h, sim_time) ==
    LET p  == IF power_kw > b.max_charge_power_kw
              THEN b.max_charge_power_kw ELSE power_kw
        energy_added ==
              (p * duration_h * b.charge_efficiency.num)
                  \div b.charge_efficiency.den
        rc == Min2(b.capacity_kwh, b.remaining_capacity + energy_added)
        cost == calculate_battery_charging_cost(energy_added, duration_h,
                                                sim_time)
        b1 == [b EXCEPT !.remaining_capacity = rc,
                        !.soc = (rc * 100) \div b.capacity_kwh,
                        !.mode = "charging",
                        !.power = p,
                        !.current_operation_cost = cost,
                        !.total_charging_cost = @ + cost]
    IN  update_operating_conditions(b1, p, duration_h, TRUE)

\* Mutant: the duration is left out of the energy removed.
discharge_no_duration(b, power_kw, duration_h, sim_time) ==
    LET p  == IF power_kw > b.max_discharge_power_kw
              THEN b.max_discharge_power_kw ELSE power_kw
        energy_removed ==
              (p * b.discharge_efficiency.den)
                  \div b.discharge_efficiency.num
        rc == Max2(0, b.remaining_capacity - energy_removed)
        cost == calculate_battery_discharging_cost(energy_removed,
                                                   duration_h, sim_time)
        b1 == [b EXCEPT !.remaining_capacity = rc,
                        !.soc = (rc * 100) \div b.capacity_kwh,
                        !.mode = "discharging",
                        !.power = -p,
                        !.cycle_count = @ + (IF rc = 0 THEN 1 ELSE 0),
                        !.current_operation_cost = cost,
                        !.total_discharging_cost = @ + cost]
    IN  update_operating_conditions(b1, p, duration_h, FALSE)

\* Mutant: every discharge call counts as a cycle.
discharge_counts_every_call(b, power_kw, duration_h, sim_time) ==
    LET p  == IF power_kw > b.max_discharge_power_kw
              THEN b.max_discharge_power_kw ELSE power_kw
        energy_removed ==
              (p * duration_h * b.discharge_efficiency.den)
                  \div b.discharge_efficiency.num
        rc == Max2(0, b.remaining_capacity - energy_removed)
        cost == calculate_battery_discharging_cost(energy_removed,
                                                   duration_h, sim_time)
        b1 == [b EXCEPT !.remaining_capacity = rc,
                        !.soc = (rc * 100) \div b.capacity_kwh,
                        !.mode = "discharging",
                        !.power = -p,
                        !.cycle_count = @ + 1,
                        !.current_operation_cost = cost,
                        !.total_discharging_cost = @ + cost]
    IN  update_operating_conditions(b1, p, duration_h, FALSE)

discharge(b, power_kw, duration_h, sim_time) ==
    LET p  == IF power_kw > b.max_discharge_power_kw
              THEN b.max_discharge_power_kw ELSE power_kw
        energy_removed ==
              (p * duration_h * b.discharge_efficiency.den)
                  \div b.discharge_efficiency.num
        rc == Max2(0, b.remaining_capacity - energy_removed)
        cost == calculate_battery_discharging_cost(energy_removed,
                                                   duration_h, sim_time)
        b1 == [b EXCEPT !.remaining_capacity = rc,
                        !.soc = (rc * 100) \div b.capacity_kwh,
                        !.mode = "discharging",
                        !.power = -p,
                        !.cycle_count = @ + (IF rc = 0 THEN 1 ELSE 0),
                        !.current_operation_cost = cost,
                        !.total_discharging_cost = @ + cost]
    IN  update_operating_conditions(b1, p, duration_h, FALSE)

\* Mutant: the storage cost is booked in the charging bucket.
calculate_storage_cost_as_charging(b, duration_h, sim_time) ==
    IF b.remaining_capacity > 0
    THEN LET cost == calculate_battery_storage_cost(b.remaining_capacity,
                                                    duration_h, sim_time)
         IN  [b EXCEPT !.current_operation_cost = cost,
                       !.total_charging_cost = @ + cost]
    ELSE b

calculate_storage_cost(b, duration_h, sim_time) ==
    IF b.remaining_capacity > 0
    THEN LET cost == calculate_battery_storage_cost(b.remaining_capacity,
                                                    duration_h, sim_time)
         IN  [b EXCEPT !.current_operation_cost = cost,
                       !.total_storage_cost = @ + cost]
    ELSE b

\* ------------------------------------------------------- grid conditioner
NoObject == [kind |-> "none"]
NoData == <<>>                  \* Python None in an optional number field

\* What calculate_storage_cost returns: the cost data, or None.
storage_cost_data(b, duration_h, sim_time) ==
    IF b.remaining_capacity > 0
    THEN << calculate_battery_storage_cost(b.remaining_capacity, duration_h,
                                           sim_time) >>
    ELSE NoData

\* operation_type after construction: only Transformer sets one.
operation_type_of(kind) ==
    IF kind = "Transformer" THEN "transmission" ELSE "unknown"

\* Mutant: the upper end of the range is not tested.
GridBase_no_upper(kind, efficiency) ==
    IF ~(0 <= efficiency)
    THEN [raised |-> "ValueError", obj |-> NoObject]
    ELSE [raised |-> "none",
          obj |-> [kind |-> kind, efficiency |-> efficiency,
                   power_in |-> <<0>>, power_out |-> <<0>>,
                   total_operation_cost |-> 0,
                   current_operation_cost |-> 0,
                   operation_type |-> operation_type_of(kind)]]

\* GridBase.__init__ and the three subclasses that extend it; efficiency
\* is in hundredths. Yields the exception raised and the object built.
GridBase(kind, efficiency) ==
    IF ~(0 <= efficiency /\ efficiency <= 100)
    THEN [raised |-> "ValueError", obj |-> NoObject]
    ELSE [raised |-> "none",
          obj |-> [kind |-> kind, efficiency |-> efficiency,
                   power_in |-> <<0>>, power_out |-> <<0>>,
                   total_operation_cost |-> 0,
                   current_operation_cost |-> 0,
                   operation_type |-> operation_type_of(kind)]]

\* Mutant: a negative input is treated as a reading.
transfer_power_negative_passes(g, input_power_kW, t) ==
    IF input_power_kW = NoData
    THEN [raised |-> "none",
          obj |-> [g EXCEPT !.power_in = NoData, !.power_out = NoData,
                            !.current_operation_cost = 0],
          ret |-> NoData]
    ELSE LET out == <<(input_power_kW[1] * g.efficiency) \div 100>>
             g1 == [g EXCEPT !.power_in = input_power_kW,
                             !.power_out = out]
         IN  IF input_power_kW[1] > 0
             THEN LET c == calculate_grid_operation_cost(
                               input_power_kW[1], g.operation_type, t)
                  IN  IF c.raised # "none"
                      THEN [raised |-> c.raised, obj |-> g1, ret |-> NoData]
                      ELSE [raised |-> "none",
                            obj |-> [g1 EXCEPT
                                !.current_operation_cost = c.total,
                                !.total_operation_cost = @ + c.total],
                            ret |-> out]
             ELSE [raised |-> "none", obj |-> g1, ret |-> out]

\* GridBase.transfer_power; input is NoData (None) or <<kW>>. Yields the
\* exception raised, the object as the call left it and the return value.
transfer_power(g, input_power_kW, t) ==
    IF input_power_kW = NoData \/ input_power_kW[1] < 0
    THEN [raised |-> "none",
          obj |-> [g EXCEPT !.power_in = NoData, !.power_out = NoData,
                            !.current_operation_cost = 0],
          ret |-> NoData]
    ELSE LET out == <<(input_power_kW[1] * g.efficiency) \div 100>>
             g1 == [g EXCEPT !.power_in = input_power_kW,
                             !.power_out = out]
         IN  IF input_power_kW[1] > 0
             THEN LET c == calculate_grid_operation_cost(
                               input_power_kW[1], g.operation_type, t)
                  IN  IF c.raised # "none"
                      THEN [raised |-> c.raised, obj |-> g1, ret |-> NoData]
                      ELSE [raised |-> "none",
                            obj |-> [g1 EXCEPT
                                !.current_operation_cost = c.total,
                                !.total_operation_cost = @ + c.total],
                            ret |-> out]
             ELSE [raised |-> "none", obj |-> g1, ret |-> out]

\* -------------------------------------------------------------- consumers
\* A number handed to a constructor, kept exact as a fraction.
Num(n, d) == [num |-> n, den |-> d]
Floor(x) == x.num \div x.den

\* ConsumerBase.__init__(demand_function, id, efficiency, voltage, current,
\* power, device_id); the id argument is not stored. Voltage is in volts.
ConsumerBase(id, efficiency, voltage, current, power, device_id) ==
    [ id |-> device_id,
      efficiency |-> efficiency,
      voltage |-> voltage,
      current |-> Floor(current),
      power |-> Floor(power),
      total_consumption_cost |-> 0,
      current_operation_cost |-> 0,
      consumer_type |-> "unknown" ]

\* House.__init__ passes (efficiency, voltage) positionally after the
\* demand function, so they land on (id, efficiency); device_id is keyed.
House(id, efficiency, voltage) ==
    [ConsumerBase(efficiency, voltage, Num(230, 1), Num(0, 1), Num(0, 1), id)
        EXCEPT !.consumer_type = "house"]

\* Industry.__init__ and EVChargingStation.__init__ pass (efficiency,
\* voltage) the same way and set id afterwards; consumer_type is untouched.
Industry(id, efficiency, voltage) ==
    [ConsumerBase(efficiency, voltage, Num(230, 1), Num(0, 1), Num(0, 1),
                  "consumer_default") EXCEPT !.id = id]

EVChargingStation(id, efficiency, voltage) ==
    [ConsumerBase(efficiency, voltage, Num(230, 1), Num(0, 1), Num(0, 1),
                  "consumer_default") EXCEPT !.id = id]

\* ElectricVehicle.__init__ passes (efficiency, voltage, current, power),
\* which land on (id, efficiency, voltage, current).
ElectricVehicle(id, efficiency, voltage, current, power) ==
    [ConsumerBase(efficiency, voltage, current, power, Num(0, 1),
                  "consumer_default") EXCEPT !.id = id]

\* The consumers of the modelled site, by class and index.
house_refs    == << <<"house", 1>> >>
industry_refs == << <<"industry", 1>> >>
station_refs  == << <<"station", 1>>, <<"station", 2>> >>
ConsumerRefs ==
    {house_refs[1], industry_refs[1]}
        \cup {<<"station", s>> : s \in {1, 2}}
        \cup {<<"ev", e>> : e \in 1..NumEvs}

\* sum(appliances.values()), sum(machinery.values()), shift_hours and
\* max_power_kw as the driver configures them.
appliance_demand == 10
machinery_demand == 20
shift_hours == << <<8, 16>>, <<16, 24>> >>
max_power_kw == 50

NewConsumers ==
    [r \in ConsumerRefs |->
        IF r[1] = "house" THEN House(r, Num(19, 20), Num(230, 1))
        ELSE IF r[1] = "industry" THEN Industry(r, Num(17, 20), Num(415, 1))
        ELSE IF r[1] = "station"
             THEN EVChargingStation(r, Num(19, 20), Num(400, 1))
        ELSE ElectricVehicle(r, Num(9, 10), Num(400, 1), Num(0, 1),
                             Num(0, 1))]

\* ConsumerBase.get_demand on object c when the demand function returns
\* demand_kw. Yields the exception raised, the object as the call left it
\* and the return value. Current: kW * 1000 / V, in kA per power unit.
ConsumerBase_get_demand(c, demand_kw, t) ==
    LET net_demand == IF c.efficiency.num > 0
                      THEN (demand_kw * c.efficiency.den)
                               \div c.efficiency.num
                      ELSE demand_kw
        c1 == [c EXCEPT !.power = net_demand]
    IN  IF c.voltage.num = 0
        THEN [raised |-> "ZeroDivisionError", obj |-> c1, ret |-> 0]
        ELSE LET c2 == [c1 EXCEPT !.current =
                           (net_demand * 40000 * c.voltage.den)
                               \div c.voltage.num]
             IN  IF net_demand > 0
                 THEN LET k == calculate_consumer_cost(net_demand,
                                                       c.consumer_type, t)
                      IN  IF k.raised # "none"
                          THEN [raised |-> k.raised, obj |-> c2, ret |-> 0]
                          ELSE [raised |-> "none",
                                obj |-> [c2 EXCEPT
                                    !.current_operation_cost = k.total,
                                    !.total_consumption_cost = @ + k.total],
                                ret |-> net_demand]
                 ELSE [raised |-> "none", obj |-> c2, ret |-> net_demand]

\* any(start <= time.hour < end for start, end in shift_hours)
active_shift(t) ==
    \E i \in 1..Len(shift_hours) :
        shift_hours[i][1] <= t.hm \div 60 /\ t.hm \div 60 < shift_hours[i][2]

RECURSIVE SumEvDemand(_, _, _, _, _, _)
\* sum(ev.get_demand(t) for ev in evs), from position i on; cs holds every
\* consumer object, dem what each class's demand function returns at t.
SumEvDemand(cs, evs, i, dem, t, acc) ==
    IF i > Len(evs)
    THEN [raised |-> "none", cs |-> cs, ret |-> acc]
    ELSE LET r == ConsumerBase_get_demand(cs[<<"ev", evs[i]>>], dem.ev, t)
             cs1 == [cs EXCEPT ![<<"ev", evs[i]>>] = r.obj]
         IN  IF r.raised # "none"
             THEN [raised |-> r.raised, cs |-> cs1, ret |-> 0]
             ELSE SumEvDemand(cs1, evs, i + 1, dem, t, acc + r.ret)

\* get_demand of House, Industry and EVChargingStation; sevs holds each
\* station's connected_evs.
get_demand(cs, sevs, ref, dem, t) ==
    LET base == ConsumerBase_get_demand(cs[ref], dem[ref[1]], t)
        cs1 == [cs EXCEPT ![ref] = base.obj]
    IN  IF base.raised # "none"
        THEN [raised |-> base.raised, cs |-> cs1, ret |-> 0]
        ELSE IF ref[1] = "house"
        THEN LET total_demand_ == base.ret + appliance_demand
             IN  [raised |-> "none",
                  cs |-> [cs1 EXCEPT ![ref].power = total_demand_],
                  ret |-> total_demand_]
        ELSE IF ref[1] = "industry"
        THEN LET total_demand_ ==
                     base.ret + (IF active_shift(t) THEN machinery_demand
                                 ELSE 0)
             IN  [raised |-> "none",
                  cs |-> [cs1 EXCEPT ![ref].power = total_demand_],
                  ret |-> total_demand_]
        ELSE LET ev == SumEvDemand(cs1, sevs[ref[2]], 1, dem, t, 0)
             IN  IF ev.raised # "none"
                 THEN [raised |-> ev.raised, cs |-> ev.cs, ret |-> 0]
                 ELSE LET total_demand_ ==
                              Min2(base.ret + ev.ret, max_power_kw)
                      IN  [raised |-> "none",
                           cs |-> [ev.cs EXCEPT ![ref].power =
                                                     total_demand_],
                           ret |-> total_demand_]

RECURSIVE SumDemand(_, _, _, _, _, _, _)
\* sum(x.get_demand(t) for x in refs), from position i on.
SumDemand(cs, sevs, refs, i, dem, t, acc) ==
    IF i > Len(refs)
    THEN [raised |-> "none", cs |-> cs, ret |-> acc]
    ELSE LET r == get_demand(cs, sevs, refs[i], dem, t)
         IN  IF r.raised # "none"
             THEN [raised |-> r.raised, cs |-> r.cs, ret |-> 0]
             ELSE SumDemand(r.cs, sevs, refs, i + 1, dem, t, acc + r.ret)

\* ------------------------------------------------------------- generation
\* GenerationBase.__init__; generation_function names the bound method
\* ("none": not provided).
GenerationBase(capacity_kW, location, generation_function) ==
    [ capacity_kW |-> capacity_kW,
      location |-> location,
      id |-> "generation_default",
      current_output |-> 0,
      generation_function |-> generation_function,
      total_generation_cost |-> 0,
      current_operation_cost |-> 0,
      generation_type |-> "unknown" ]

\* SolarPowerPlant.__init__ leaves generation_type as the base class set it.
SolarPowerPlant(capacity_kW, location) ==
    GenerationBase(capacity_kW, location, "solar_generation_function")

WindPowerPlant(capacity_kW, location) ==
    [GenerationBase(capacity_kW, location, "wind_generation_function")
        EXCEPT !.generation_type = "wind"]

\* A keyword argument of a call, or the parameter's default.
Arg(kwargs, name, default) ==
    IF name \in DOMAIN kwargs THEN kwargs[name] ELSE default

\* capacity_kW * sunlight_factor; the factor is in hundredths.
solar_generation_function(p, kwargs) ==
    (p.capacity_kW * Arg(kwargs, "sunlight_factor", 100)) \div 100

\* capacity_kW * min(wind_speed_m_s / 12, 1) ** 3; speed in m/s.
wind_generation_function(p, kwargs) ==
    LET n == Min2(Arg(kwargs, "wind_speed_m_s", 0), 12)
    IN  (p.capacity_kW * n * n * n) \div 1728

\* GenerationBase.generate(sim_time, **kwargs). Yields the exception
\* raised, the plant as the call left it and the return value.
generate(p, kwargs, t) ==
    IF p.generation_function = "none"
    THEN [raised |-> "NotImplementedError", obj |-> p, ret |-> 0]
    ELSE LET output == IF p.generation_function
                              = "solar_generation_function"
                       THEN solar_generation_function(p, kwargs)
                       ELSE wind_generation_function(p, kwargs)
             p1 == [p EXCEPT !.current_output =
                                 Min2(output, p.capacity_kW)]
         IN  IF p1.current_output > 0
             THEN LET k == calculate_generation_cost(
                               p1.current_output, p.generation_type, t)
                  IN  IF k.raised # "none"
                      THEN [raised |-> k.raised, obj |-> p1, ret |-> 0]
                      ELSE [raised |-> "none",
                            obj |-> [p1 EXCEPT
                                !.current_operation_cost = k.total,
                                !.total_generation_cost = @ + k.total],
                            ret |-> p1.current_output]
             ELSE [raised |-> "none", obj |-> p1, ret |-> 0]

\* sin(pi * (hour - 6) / 12) on the hour, in hundredths; 0 outside 6..17 h.
solar_angle(t) ==
    LET h == t.hm \div 60
    IN  IF 6 <= h /\ h < 18
        THEN <<0, 26, 50, 71, 87, 97, 100, 97, 87, 71, 50, 26>>[h - 5]
        ELSE 0

\* 1 + 0.2 * cos(2 pi (day_of_year - 172) / 365) at mid-month, hundredths.
seasonal_factor(t) ==
    <<82, 88, 98, 108, 116, 120, 118, 112, 102, 92, 84, 80>>[t.month]

\* solar_generation_factor(time) with last_weather (hundredths, 70..100)
\* as the random walk left it: angle * seasonal * weather * 0.9.
solar_generation_factor(t, last_weather) ==
    Max2(0, (solar_angle(t) * seasonal_factor(t) * last_weather * 9)
                \div 100000)

\* --------------------------------------------------------------- topology
\* Mutant: an added link is stored in both directions.
add_connection_symmetric(c, source_id, target_id, enabled) ==
    [e \in DOMAIN c \cup {<<source_id, target_id>>, <<target_id, source_id>>}
        |-> IF e \in {<<source_id, target_id>>, <<target_id, source_id>>}
            THEN enabled ELSE c[e]]

\* GridTopology.connections as one map from (source, target) to enabled.
add_connection(c, source_id, target_id, enabled) ==
    [e \in DOMAIN c \cup {<<source_id, target_id>>} |->
        IF e = <<source_id, target_id>> THEN enabled ELSE c[e]]

enable_connection(c, source_id, target_id) ==
    IF <<source_id, target_id>> \in DOMAIN c
    THEN [c EXCEPT ![<<source_id, target_id>>] = TRUE] ELSE c

disable_connection(c, source_id, target_id) ==
    IF <<source_id, target_id>> \in DOMAIN c
    THEN [c EXCEPT ![<<source_id, target_id>>] = FALSE] ELSE c

is_connected(c, source_id, target_id) ==
    IF <<source_id, target_id>> \in DOMAIN c
    THEN c[<<source_id, target_id>>] ELSE FALSE

\* ------------------------------------------------------------- grid setup
solar_plants == <<"SolarSite_1">>
wind_plants  == <<"WindSite_1">>
PlantIds == {"SolarSite_1", "WindSite_1"}

NewPlants ==
    [id \in PlantIds |->
        IF id = "SolarSite_1"
        THEN [SolarPowerPlant(100, id) EXCEPT !.id = id]
        ELSE [WindPowerPlant(100, id) EXCEPT !.id = id]]

NewInverters == [id \in PlantIds |-> GridBase("Inverter", 98).obj]

\* Every conditioner's id is the base class's device_id default, so
\* add_substation and add_transformer keep it.
conditioner_id == "grid_default"
substations  == << GridBase("Substation", 99).obj >>
transformers == << GridBase("Transformer", 97).obj >>

\* PowerPlantBESS.__init__: efficiencies and power limits are defaults,
\* grid_connected is the default True.
PowerPlantBESS(capacity_kwh, rated_voltage, rated_power_kw) ==
    BaseBattery([capacity_kwh |-> capacity_kwh,
                 rated_voltage |-> rated_voltage,
                 rated_power_kw |-> rated_power_kw,
                 max_charge_power_kw |-> 0, max_discharge_power_kw |-> 0,
                 charge_efficiency |-> EffDefault,
                 discharge_efficiency |-> EffDefault])
        @@ [grid_connected |-> TRUE]

\* PowerPlantBESS.connect_to_grid and disconnect_from_grid.
connect_to_grid(b) ==
    [b EXCEPT !.grid_connected = TRUE, !.mode = "grid-connected"]

disconnect_from_grid(b) ==
    [b EXCEPT !.grid_connected = FALSE, !.mode = "islanded"]

\* bess_list after add_power_plant(solar, .., bess), add_power_plant(wind,
\* .., bess): registration order.
NewBessList == << PowerPlantBESS(100, 800, 100), PowerPlantBESS(50, 800, 20) >>

\* topology after add_power_plant x2, add_substation, add_transformer.
NewConnections ==
    add_connection(
        add_connection(
            add_connection(
                add_connection(<<>>, "SolarSite_1", "Grid", TRUE),
                "WindSite_1", "Grid", TRUE),
            "Grid", conditioner_id, TRUE),
        conditioner_id, conditioner_id, TRUE)

\* PowerRoutingManager.__init__, shares in hundredths.
NewRouting ==
    [solar_to_houses |-> 33, solar_to_industries |-> 33,
     solar_to_stations |-> 34, wind_to_houses |-> 33,
     wind_to_industries |-> 33, wind_to_stations |-> 34,
     bess_to_houses |-> 33, bess_to_industries |-> 33,
     bess_to_stations |-> 34]

\* PowerRoutingManager.update_routing: dict.update, a merge by key.
update_routing(routing_config, new_config) ==
    [k \in DOMAIN routing_config \cup DOMAIN new_config |->
        IF k \in DOMAIN new_config THEN new_config[k] ELSE routing_config[k]]

\* Mutant: the caller is handed the manager's own dict.
get_routing_shared(routing_config) ==
    [shared |-> TRUE, map |-> routing_config]

\* PowerRoutingManager.get_routing: a new dict with the same items; shared
\* tells whether the mapping handed out is the manager's own object.
get_routing(routing_config) ==
    [shared |-> FALSE, map |-> routing_config]

\* ----------------------------------------------------------- orchestrator
\* The objects one tick works on, and the exception it has raised so far.
\* sum and net_power are locals of the tick; served is a note of what the
\* battery loop asked of each battery.
World(cs, ps, invs, srcs, supply, demand, bs, total, current, flows) ==
    [ raised |-> "none", cs |-> cs, plants |-> ps, inverters |-> invs,
      supply_sources |-> srcs, total_supply |-> supply,
      total_demand |-> demand, bess_list |-> bs,
      total_external_grid_cost |-> total,
      current_external_grid_cost |-> current,
      power_flows |-> flows, sum |-> 0, net_power |-> 0, served |-> <<>> ]

\* The outcome r of one demand sum taken into the tick: the objects it
\* touched, its exception, and its value added to the running total.
TakeSum(w, r) ==
    [w EXCEPT !.raised = r.raised, !.cs = r.cs, !.sum = @ + r.ret]

\* sum(x.get_demand(t) for x in refs), unless the tick has raised already.
DemandSum(w, sevs, refs, dem, t) ==
    IF w.raised # "none" THEN w
    ELSE TakeSum(w, SumDemand(w.cs, sevs, refs, 1, dem, t, 0))

\* sum(ev.get_demand(t) for station in stations for ev in connected_evs)
EvDemandSum(w, sevs, dem, t) ==
    IF w.raised # "none" THEN w
    ELSE TakeSum(w, SumEvDemand(w.cs, sevs[1] \o sevs[2], 1, dem, t, 0))

\* total_demand = the four sums, assigned once all of them returned.
SetTotalDemand(w) ==
    IF w.raised # "none" THEN w ELSE [w EXCEPT !.total_demand = w.sum]

\* simulation.py:305-309, the four demand sums and total_demand.
DemandSums(w, sevs, dem, t) ==
    SetTotalDemand(
        EvDemandSum(
            DemandSum(
                DemandSum(
                    DemandSum([w EXCEPT !.sum = 0], sevs, house_refs, dem, t),
                    sevs, industry_refs, dem, t),
                sevs, station_refs, dem, t),
            sevs, dem, t))

RECURSIVE GenerationLoop_ignores_topology(_, _, _, _, _, _)
\* Mutant: every plant is sampled, whatever its link to the grid.
GenerationLoop_ignores_topology(w, conns, ids, i, kwargs, t) ==
    IF i > Len(ids) \/ w.raised # "none" THEN w
    ELSE
    LET g == generate(w.plants[ids[i]], kwargs, t)
        w1 == [w EXCEPT !.plants[ids[i]] = g.obj]
    IN  IF g.raised # "none" THEN [w1 EXCEPT !.raised = g.raised]
        ELSE
    LET x == transfer_power(w.inverters[ids[i]], <<g.ret>>, t)
        w2 == [w1 EXCEPT !.inverters[ids[i]] = x.obj]
    IN  IF x.raised # "none" THEN [w2 EXCEPT !.raised = x.raised]
        ELSE IF x.ret = NoData THEN [w2 EXCEPT !.raised = "TypeError"]
        ELSE GenerationLoop_ignores_topology(
                 [w2 EXCEPT !.supply_sources[ids[i]] = x.ret[1],
                            !.total_supply = @ + x.ret[1]],
                 conns, ids, i + 1, kwargs, t)

RECURSIVE GenerationLoop(_, _, _, _, _, _)
\* simulation.py:310-323, one loop over a list of plants; kwargs is the
\* keyword argument the loop passes to generate.
GenerationLoop(w, conns, ids, i, kwargs, t) ==
    IF i > Len(ids) \/ w.raised # "none" THEN w
    ELSE IF ~is_connected(conns, ids[i], "Grid")
    THEN GenerationLoop(w, conns, ids, i + 1, kwargs, t)
    ELSE
    LET g == generate(w.plants[ids[i]], kwargs, t)
        w1 == [w EXCEPT !.plants[ids[i]] = g.obj]
    IN  IF g.raised # "none" THEN [w1 EXCEPT !.raised = g.raised]
        ELSE
    LET x == transfer_power(w.inverters[ids[i]], <<g.ret>>, t)
        w2 == [w1 EXCEPT !.inverters[ids[i]] = x.obj]
    IN  IF x.raised # "none" THEN [w2 EXCEPT !.raised = x.raised]
        ELSE IF x.ret = NoData THEN [w2 EXCEPT !.raised = "TypeError"]
        ELSE GenerationLoop(
                 [w2 EXCEPT !.supply_sources[ids[i]] = x.ret[1],
                            !.total_supply = @ + x.ret[1]],
                 conns, ids, i + 1, kwargs, t)

RECURSIVE LossLoop_total_only(_, _, _)
\* Mutant: the per-plant entries are left as the inverters gave them.
LossLoop_total_only(w, conds, i) ==
    IF i > Len(conds) THEN w
    ELSE LossLoop_total_only(
             [w EXCEPT
                 !.total_supply = (@ * conds[i].efficiency) \div 100],
             conds, i + 1)

RECURSIVE LossLoop(_, _, _)
\* simulation.py:324-331, one loop over a list of conditioners.
LossLoop(w, conds, i) ==
    IF i > Len(conds) THEN w
    ELSE LossLoop(
             [w EXCEPT
                 !.total_supply = (@ * conds[i].efficiency) \div 100,
                 !.supply_sources =
                     [k \in DOMAIN @ |->
                         (@[k] * conds[i].efficiency) \div 100]],
             conds, i + 1)

RECURSIVE BessLoop_calls_every_battery(_, _, _, _)
\* Mutant: a battery the tick has no use for is charged with power 0.
BessLoop_calls_every_battery(w, i, duration_h, t) ==
    IF i > Len(w.bess_list) THEN w
    ELSE
    LET bess == w.bess_list[i]
        net == w.net_power
    IN  IF net > 0 /\ bess.soc < 100
        THEN LET charge_power ==
                     Min2(net, Min2(bess.max_charge_power_kw,
                         (bess.capacity_kwh - bess.remaining_capacity)
                             \div duration_h))
                 b1 == charge(bess, charge_power, duration_h, t)
             IN  BessLoop_calls_every_battery(
                     [w EXCEPT
                         !.bess_list[i] =
                             calculate_storage_cost(b1, duration_h, t),
                         !.net_power = net - charge_power,
                         !.served = Append(@, [op |-> "charge",
                                               power |-> charge_power,
                                               net |-> net])],
                     i + 1, duration_h, t)
        ELSE IF net < 0 /\ bess.soc > 0
        THEN LET discharge_power ==
                     Min2(-net, Min2(bess.max_discharge_power_kw,
                         bess.remaining_capacity \div duration_h))
                 b1 == discharge(bess, discharge_power, duration_h, t)
             IN  BessLoop_calls_every_battery(
                     [w EXCEPT
                         !.bess_list[i] =
                             calculate_storage_cost(b1, duration_h, t),
                         !.net_power = net + discharge_power,
                         !.served = Append(@, [op |-> "discharge",
                                               power |-> discharge_power,
                                               net |-> net])],
                     i + 1, duration_h, t)
        ELSE BessLoop_calls_every_battery(
                 [w EXCEPT
                     !.bess_list[i] =
                         calculate_storage_cost(
                             charge(bess, 0, duration_h, t), duration_h, t),
                     !.served = Append(@, [op |-> "none", power |-> 0,
                                           net |-> net])],
                 i + 1, duration_h, t)

RECURSIVE BessLoop_overshoots(_, _, _, _)
\* Mutant: the discharge power is not limited by the shortfall.
BessLoop_overshoots(w, i, duration_h, t) ==
    IF i > Len(w.bess_list) THEN w
    ELSE
    LET bess == w.bess_list[i]
        net == w.net_power
    IN  IF net > 0 /\ bess.soc < 100
        THEN LET charge_power ==
                     Min2(net, Min2(bess.max_charge_power_kw,
                         (bess.capacity_kwh - bess.remaining_capacity)
                             \div duration_h))
                 b1 == charge(bess, charge_power, duration_h, t)
             IN  BessLoop_overshoots(
                     [w EXCEPT
                         !.bess_list[i] =
                             calculate_storage_cost(b1, duration_h, t),
                         !.net_power = net - charge_power,
                         !.served = Append(@, [op |-> "charge",
                                               power |-> charge_power,
                                               net |-> net])],
                     i + 1, duration_h, t)
        ELSE IF net < 0 /\ bess.soc > 0
        THEN LET discharge_power ==
                     Min2(bess.max_discharge_power_kw,
                          bess.remaining_capacity \div duration_h)
                 b1 == discharge(bess, discharge_power, duration_h, t)
             IN  BessLoop_overshoots(
                     [w EXCEPT
                         !.bess_list[i] =
                             calculate_storage_cost(b1, duration_h, t),
                         !.net_power = net + discharge_power,
                         !.served = Append(@, [op |-> "discharge",
                                               power |-> discharge_power,
                                               net |-> net])],
                     i + 1, duration_h, t)
        ELSE BessLoop_overshoots(
                 [w EXCEPT
                     !.bess_list[i] =
                         calculate_storage_cost(bess, duration_h, t),
                     !.served = Append(@, [op |-> "none", power |-> 0,
                                           net |-> net])],
                 i + 1, duration_h, t)

RECURSIVE BessLoop_keeps_net(_, _, _, _)
\* Mutant: net_power is not reduced by what a battery took or gave.
BessLoop_keeps_net(w, i, duration_h, t) ==
    IF i > Len(w.bess_list) THEN w
    ELSE
    LET bess == w.bess_list[i]
        net == w.net_power
    IN  IF net > 0 /\ bess.soc < 100
        THEN LET charge_power ==
                     Min2(net, Min2(bess.max_charge_power_kw,
                         (bess.capacity_kwh - bess.remaining_capacity)
                             \div duration_h))
                 b1 == charge(bess, charge_power, duration_h, t)
             IN  BessLoop_keeps_net(
                     [w EXCEPT
                         !.bess_list[i] =
                             calculate_storage_cost(b1, duration_h, t),
                         !.served = Append(@, [op |-> "charge",
                                               power |-> charge_power,
                                               net |-> net])],
                     i + 1, duration_h, t)
        ELSE IF net < 0 /\ bess.soc > 0
        THEN LET discharge_power ==
                     Min2(-net, Min2(bess.max_discharge_power_kw,
                         bess.remaining_capacity \div duration_h))
                 b1 == discharge(bess, discharge_power, duration_h, t)
             IN  BessLoop_keeps_net(
                     [w EXCEPT
                         !.bess_list[i] =
                             calculate_storage_cost(b1, duration_h, t),
                         !.served = Append(@, [op |-> "discharge",
                                               power |-> discharge_power,
                                               net |-> net])],
                     i + 1, duration_h, t)
        ELSE BessLoop_keeps_net(
                 [w EXCEPT
                     !.bess_list[i] =
                         calculate_storage_cost(bess, duration_h, t),
                     !.served = Append(@, [op |-> "none", power |-> 0,
                                           net |-> net])],
                 i + 1, duration_h, t)

RECURSIVE BessLoop(_, _, _, _)
\* simulation.py:333-343, the battery loop in registration order.
BessLoop(w, i, duration_h, t) ==
    IF i > Len(w.bess_list) THEN w
    ELSE
    LET bess == w.bess_list[i]
        net == w.net_power
    IN  IF net > 0 /\ bess.soc < 100
        THEN LET charge_power ==
                     Min2(net, Min2(bess.max_charge_power_kw,
                         (bess.capacity_kwh - bess.remaining_capacity)
                             \div duration_h))
                 b1 == charge(bess, charge_power, duration_h, t)
             IN  BessLoop(
                     [w EXCEPT
                         !.bess_list[i] =
                             calculate_storage_cost(b1, duration_h, t),
                         !.net_power = net - charge_power,
                         !.served = Append(@, [op |-> "charge",
                                               power |-> charge_power,
                                               net |-> net])],
                     i + 1, duration_h, t)
        ELSE IF net < 0 /\ bess.soc > 0
        THEN LET discharge_power ==
                     Min2(-net, Min2(bess.max_discharge_power_kw,
                         bess.remaining_capacity \div duration_h))
                 b1 == discharge(bess, discharge_power, duration_h, t)
             IN  BessLoop(
                     [w EXCEPT
                         !.bess_list[i] =
                             calculate_storage_cost(b1, duration_h, t),
                         !.net_power = net + discharge_power,
                         !.served = Append(@, [op |-> "discharge",
                                               power |-> discharge_power,
                                               net |-> net])],
                     i + 1, duration_h, t)
        ELSE BessLoop(
                 [w EXCEPT
                     !.bess_list[i] =
                         calculate_storage_cost(bess, duration_h, t),
                     !.served = Append(@, [op |-> "none", power |-> 0,
                                           net |-> net])],
                 i + 1, duration_h, t)

\* simulation.py:324-331: every substation, then every transformer.
LossLoops(w, subs, trans) == LossLoop(LossLoop(w, subs, 1), trans, 1)

\* simulation.py:324-331, both loss loops, unless the tick has raised.
Losses(w) ==
    IF w.raised # "none" THEN w ELSE LossLoops(w, substations, transformers)

\* simulation.py:344-351, the residual shortfall billed as import.
ExternalImportIn(table, w, t) ==
    IF w.net_power < 0
    THEN LET k == generation_cost_in(table, Abs(w.net_power),
                                     "external_grid", t)
         IN  IF k.raised # "none" THEN [w EXCEPT !.raised = k.raised]
             ELSE [w EXCEPT !.current_external_grid_cost = k.total,
                            !.total_external_grid_cost = @ + k.total]
    ELSE w

\* The same with the default table, as the assembled site runs it.
ExternalImport(w, t) == ExternalImportIn(generation_costs, w, t)

\* sum(supply_sources.get(id, 0) for id in ids), from position i on
RECURSIVE SupplyOf(_, _, _)
SupplyOf(srcs, ids, i) ==
    IF i > Len(ids) THEN 0
    ELSE (IF ids[i] \in DOMAIN srcs THEN srcs[ids[i]] ELSE 0)
             + SupplyOf(srcs, ids, i + 1)

\* power_flows[(p, 'Grid')] = supply_sources.get(p, 0) for p in ids
PlantFlows(flows, srcs, ids) ==
    [e \in DOMAIN flows \cup {<<ids[i], "Grid">> : i \in 1..Len(ids)} |->
        IF e[2] = "Grid" /\ \E i \in 1..Len(ids) : ids[i] = e[1]
        THEN (IF e[1] \in DOMAIN srcs THEN srcs[e[1]] ELSE 0)
        ELSE flows[e]]

\* Mutant: the routing step takes the demand it has routed off the books.
RecordFlows_clears_demand(w, conns, routing) ==
    LET solar_power == SupplyOf(w.supply_sources, solar_plants, 1)
        wind_power == SupplyOf(w.supply_sources, wind_plants, 1)
        f1 == IF solar_power > 0 /\ is_connected(conns, "Grid", "Substation")
              THEN add_connection(add_connection(add_connection(
                       PlantFlows(<<>>, w.supply_sources, solar_plants),
                       "Grid", "Houses",
                       (solar_power * routing.solar_to_houses) \div 100),
                       "Grid", "Industries",
                       (solar_power * routing.solar_to_industries) \div 100),
                       "Grid", "Stations",
                       (solar_power * routing.solar_to_stations) \div 100)
              ELSE <<>>
    IN  IF w.raised # "none" THEN w
        ELSE [w EXCEPT !.total_demand = 0, !.power_flows =
                 IF wind_power > 0
                        /\ is_connected(conns, "Grid", "Substation")
                 THEN PlantFlows(f1, w.supply_sources, wind_plants)
                 ELSE f1]

\* simulation.py:284-298, the flows recorded once the demands returned.
RecordFlows(w, conns, routing) ==
    LET solar_power == SupplyOf(w.supply_sources, solar_plants, 1)
        wind_power == SupplyOf(w.supply_sources, wind_plants, 1)
        f1 == IF solar_power > 0 /\ is_connected(conns, "Grid", "Substation")
              THEN add_connection(add_connection(add_connection(
                       PlantFlows(<<>>, w.supply_sources, solar_plants),
                       "Grid", "Houses",
                       (solar_power * routing.solar_to_houses) \div 100),
                       "Grid", "Industries",
                       (solar_power * routing.solar_to_industries) \div 100),
                       "Grid", "Stations",
                       (solar_power * routing.solar_to_stations) \div 100)
              ELSE <<>>
    IN  IF w.raised # "none" THEN w
        ELSE [w EXCEPT !.power_flows =
                 IF wind_power > 0
                        /\ is_connected(conns, "Grid", "Substation")
                 THEN PlantFlows(f1, w.supply_sources, wind_plants)
                 ELSE f1]

\* Grid.route_power_to_consumers.
route_power_to_consumers(w, conns, routing, sevs, dem, t) ==
    RecordFlows(
        DemandSum(
            DemandSum(
                DemandSum([w EXCEPT !.power_flows = <<>>],
                          sevs, house_refs, dem, t),
                sevs, industry_refs, dem, t),
            sevs, station_refs, dem, t),
        conns, routing)

\* simulation.py:352, unless the import raised.
Routed(w, conns, routing, sevs, dem, t) ==
    IF w.raised # "none" THEN w
    ELSE route_power_to_consumers(w, conns, routing, sevs, dem, t)

\* simulation.py:332-351, net_power, the battery loop and the import,
\* unless the tick has raised.
Balance(w, t, duration_h) ==
    IF w.raised # "none" THEN w
    ELSE ExternalImport(
             BessLoop([w EXCEPT !.net_power =
                                    w.total_supply - w.total_demand],
                      1, duration_h, t),
             t)

\* simulation.py:332-352, from net_power on, unless the tick has raised.
Dispatch(w, conns, routing, sevs, t, dem, duration_h) ==
    Routed(Balance(w, t, duration_h), conns, routing, sevs, dem, t)

\* simulation.py:301-304, the per-tick accumulators set back to 0.
ResetAccumulators(w) ==
    [w EXCEPT !.supply_sources = [k \in DOMAIN @ |-> 0],
              !.total_supply = 0, !.total_demand = 0]

\* simulation.py:310-331, both plant loops and both loss loops.
Generation(w, conns, t, sunlight, wind) ==
    Losses(
        GenerationLoop(
            GenerationLoop(w, conns, solar_plants, 1,
                           [a \in {"sunlight_factor"} |-> sunlight], t),
            conns, wind_plants, 1, [a \in {"wind_speed"} |-> wind], t))

\* Grid.simulate_step: the whole tick, up to the first exception.
simulate_step(w, conns, routing, sevs, t, dem, sunlight, wind, duration_h) ==
    Dispatch(
        Generation(DemandSums(ResetAccumulators(w), sevs, dem, t),
                   conns, t, sunlight, wind),
        conns, routing, sevs, t, dem, duration_h)

\* ------------------------------------------------------------------ state
VARIABLES
    bat,            \* a battery driven through its public API
    calls,          \* the calls made on bat so far, oldest first
    available_evs,  \* DynamicEVManager.available_evs (a list)
    connected_evs,  \* DynamicEVManager.connected_evs (a list)
    station_evs,    \* EVChargingStation.connected_evs of every station
    ev_connected,   \* ElectricVehicle.connected of every EV
    ev_status,      \* ElectricVehicle.charging_status of every EV
    ev_log,         \* the connect_ev attempts of the last manager tick
    gc,             \* the conditioner the last constructor call returned
    gc_calls,       \* constructor and transfer_power calls so far
    consumers,      \* every house, industry, station and EV object
    plants,         \* every power plant object
    inverters,      \* Grid.inverters
    connections,    \* Grid.topology.connections
    routing_config, \* Grid.routing_manager.routing_config
    supply_sources, \* Grid.supply_sources
    total_supply,   \* Grid.total_supply
    total_demand,   \* Grid.total_demand
    bess_list,      \* Grid.bess_list, the battery objects in order
    total_external_grid_cost,
    current_external_grid_cost,
    power_flows,    \* Grid.power_flows
    raised,         \* the exception the last simulate_step ended with
    tick,           \* the inputs and battery loop of the last simulate_step
    nsteps,         \* driver iterations so far
    topology,       \* GridTopology.connections of a topology of its own
    topo_op,        \* the last call made on topology
    topo_added,     \* the pairs add_connection was called with so far
    returned,       \* the mapping the last get_routing call handed out
    route_op,       \* the last call made on the routing manager
    route_ops,      \* routing calls so far
    cost_args,      \* the arguments of a CostCalculator call
    cost_results,   \* what each call with cost_args returned, oldest first
    unit,           \* a generation unit driven through generate
    gen_call,       \* the last generate call made on unit
    gen_ops,        \* generate calls so far
    stage,          \* where the main loop stands inside simulate_step
    viz_seen,       \* what the visualizer's last update_plot read
    published,      \* the same fields as the last completed tick left them
    loop_bess,      \* a bess_list the battery loop is run on
    loop_run,       \* the last run of the battery loop on loop_bess
    loop_runs,      \* runs of the battery loop so far
    conditioned,    \* the last run of the loss loops on their own
    billing,        \* a grid's external-grid costs, billed tick by tick
    vehicle         \* an electric vehicle driven through its own API

batVars == <<bat, calls>>
evVars == <<available_evs, connected_evs, station_evs, ev_connected,
            ev_status, ev_log>>
gcVars == <<gc, gc_calls>>
gridObjects == <<consumers, plants, inverters, supply_sources, total_supply,
                 total_demand, bess_list, total_external_grid_cost,
                 current_external_grid_cost, power_flows, raised, tick>>
gridVars == <<gridObjects, connections, routing_config, nsteps>>
topoVars == <<topology, topo_op, topo_added>>
routeVars == <<returned, route_op, route_ops>>
costVars == <<cost_args, cost_results>>
genVars == <<unit, gen_call, gen_ops>>
vizVars == <<stage, viz_seen, published>>
loopVars == <<loop_bess, loop_run, loop_runs>>
soloVars == <<billing, vehicle>>
probeVars == <<loopVars, conditioned, soloVars>>
harnessVars == <<topoVars, routeVars, costVars, genVars, vizVars, probeVars>>
vars == <<batVars, evVars, gcVars, gridVars, harnessVars>>

PowerSet == {0, 20, 60}
DurSet == {1, 2}

Call(op, p, d, t, before) ==
    [op |-> op, power_kw |-> p, duration_h |-> d, sim_time |-> t,
     before |-> before]

\* ------------------------------------------------------ EV population
SeqHas(s, x) == \E i \in 1..Len(s) : s[i] = x

\* list.remove: drops the first occurrence.
SeqRemove(s, x) ==
    LET i == CHOOSE k \in 1..Len(s) :
                 s[k] = x /\ \A j \in 1..(k - 1) : s[j] # x
    IN  SubSeq(s, 1, i - 1) \o SubSeq(s, i + 1, Len(s))

EvIds == 1..NumEvs
StationIds == {1, 2}
all_evs == [i \in EvIds |-> i]
num_ports == <<1, 2>>                       \* ports of stations 1 and 2

\* The EV side of the program as one value.
EvState == [available |-> available_evs, connected |-> connected_evs,
            stations |-> station_evs, plugged |-> ev_connected,
            status |-> ev_status]

\* Mutant: the port test lets one EV too many in.
connect_ev_off_by_one(evs, ports, ev) ==
    IF Len(evs) <= ports
    THEN [list |-> Append(evs, ev), ok |-> TRUE]
    ELSE [list |-> evs, ok |-> FALSE]

\* EVChargingStation.connect_ev: the new list and the returned flag.
connect_ev(evs, ports, ev) ==
    IF Len(evs) < ports
    THEN [list |-> Append(evs, ev), ok |-> TRUE]
    ELSE [list |-> evs, ok |-> FALSE]

\* Mutant: a plugged-in EV stays in the available list.
ArriveAt_keeps_available(es, ev, st) ==
    LET r == connect_ev(es.stations[st], num_ports[st], ev)
    IN  IF r.ok
        THEN [es |-> [es EXCEPT !.stations[st] = r.list,
                                !.plugged[ev] = TRUE,
                                !.connected = Append(@, ev)],
              ok |-> TRUE]
        ELSE [es |-> es, ok |-> FALSE]

\* One pass of the arrival loop body for an EV that drew an arrival at st:
\* the state after it and what connect_ev returned.
ArriveAt(es, ev, st) ==
    LET r == connect_ev(es.stations[st], num_ports[st], ev)
    IN  IF r.ok
        THEN [es |-> [es EXCEPT !.stations[st] = r.list,
                                !.plugged[ev] = TRUE,
                                !.available = SeqRemove(@, ev),
                                !.connected = Append(@, ev)],
              ok |-> TRUE]
        ELSE [es |-> es, ok |-> FALSE]

\* The first station, in list order, that holds ev (0: none does).
StationOf(es, ev) ==
    IF \E st \in StationIds : SeqHas(es.stations[st], ev)
    THEN CHOOSE st \in StationIds :
             /\ SeqHas(es.stations[st], ev)
             /\ \A u \in 1..(st - 1) : ~SeqHas(es.stations[u], ev)
    ELSE 0

\* Mutant: a departing EV is not taken off its station's list.
Depart_stays_at_station(es, ev) ==
    LET st == StationOf(es, ev)
    IN  IF st = 0 THEN es
        ELSE [es EXCEPT !.plugged[ev] = FALSE,
                        !.status[ev] = "idle",
                        !.connected = SeqRemove(@, ev),
                        !.available = Append(@, ev)]

\* One pass of the departure loop body for an EV that drew a departure.
Depart(es, ev) ==
    LET st == StationOf(es, ev)
    IN  IF st = 0 THEN es
        ELSE [es EXCEPT !.stations[st] = SeqRemove(@, ev),
                        !.plugged[ev] = FALSE,
                        !.status[ev] = "idle",
                        !.connected = SeqRemove(@, ev),
                        !.available = Append(@, ev)]

\* for ev in list(self.available_evs): arr[ev] is the station drawn, 0 when
\* random.random() >= arrival_prob. Yields the state and the attempt log.
RECURSIVE ArrivalLoop(_, _, _, _, _)
ArrivalLoop(snapshot, i, arr, es, log) ==
    IF i > Len(snapshot) THEN [es |-> es, log |-> log]
    ELSE LET ev == snapshot[i]
             st == arr[ev]
         IN  IF st = 0 THEN ArrivalLoop(snapshot, i + 1, arr, es, log)
             ELSE LET r == ArriveAt(es, ev, st)
                  IN  ArrivalLoop(snapshot, i + 1, arr, r.es,
                         Append(log, [ev |-> ev, station |-> st,
                                      ok |-> r.ok,
                                      full |-> Len(es.stations[st])
                                                 >= num_ports[st],
                                      changed |-> r.es # es]))

\* for ev in list(self.connected_evs): dep[ev] is the departure draw.
RECURSIVE DepartureLoop(_, _, _, _)
DepartureLoop(snapshot, i, dep, es) ==
    IF i > Len(snapshot) THEN es
    ELSE DepartureLoop(snapshot, i + 1, dep,
            IF dep[snapshot[i]] THEN Depart(es, snapshot[i]) ELSE es)

\* ------------------------------------------------------ electric vehicle
\* EVBattery.__init__: a BaseBattery with default limits and efficiencies.
EVBattery(capacity_kwh, rated_voltage, rated_power_kw) ==
    BaseBattery([capacity_kwh |-> capacity_kwh,
                 rated_voltage |-> rated_voltage,
                 rated_power_kw |-> rated_power_kw,
                 max_charge_power_kw |-> 0, max_discharge_power_kw |-> 0,
                 charge_efficiency |-> EffDefault,
                 discharge_efficiency |-> EffDefault])

\* An ElectricVehicle with its battery: the consumer fields, the
\* plugged-in flag and charging_status of ev.py:11-14.
NewVehicle(current) ==
    [ev |-> ElectricVehicle(<<"ev", 1>>, Num(9, 10), Num(400, 1), current,
                            Num(0, 1)),
     battery |-> EVBattery(100, 800, 40),
     charging_status |-> "idle",
     connected |-> FALSE]

\* ElectricVehicle.plug_in and unplug.
plug_in(v) == [v EXCEPT !.connected = TRUE]

unplug(v) == [v EXCEPT !.connected = FALSE, !.charging_status = "idle"]

\* ElectricVehicle.charge_ev when the demand function returns demand_kw:
\* the exception raised, the vehicle as the call left it, the return value.
charge_ev(v, demand_kw, t, duration_h) ==
    IF ~v.connected THEN [raised |-> "none", obj |-> v, ret |-> 0]
    ELSE LET r == ConsumerBase_get_demand(v.ev, demand_kw, t)
         IN  IF r.raised # "none"
             THEN [raised |-> r.raised, obj |-> [v EXCEPT !.ev = r.obj],
                   ret |-> 0]
             ELSE [raised |-> "none",
                   obj |-> [v EXCEPT !.ev = r.obj,
                                     !.battery = charge(v.battery, r.ret,
                                                        duration_h, t),
                                     !.charging_status = "charging"],
                   ret |-> r.ret]

InitEv ==
    /\ available_evs = all_evs
    /\ connected_evs = <<>>
    /\ station_evs = [s \in StationIds |-> <<>>]
    /\ ev_connected = [e \in EvIds |-> FALSE]
    /\ ev_status = [e \in EvIds |-> "idle"]
    /\ ev_log = <<>>

\* What the driver feeds a tick.
\* Values the demand_function of each consumer class returns; the driver's
\* own functions are positive, a caller's may return 0.
HouseDemands    == {0, 4600, 27600}
IndustryDemands == {0, 41500}
StationDemands  == {0, 8000}
EvDemand        == 10000
GridTimes       == {Noon, Night}      \* current_time
last_weather    == 85                 \* solar_generation_factor.last_weather
wind_factor     == 60                 \* wind_generation_factor(t), hundredths
SetupEvs        == 1                  \* the slice of evs the driver plugs in
duration_h      == 1                  \* sim_step_minutes / 60

InitGrid ==
    /\ consumers = NewConsumers
    /\ plants = NewPlants
    /\ inverters = NewInverters
    /\ connections = NewConnections
    /\ routing_config = NewRouting
    /\ supply_sources = [id \in PlantIds |-> 0]
    /\ total_supply = 0
    /\ total_demand = 0
    /\ bess_list = NewBessList
    /\ total_external_grid_cost = 0
    /\ current_external_grid_cost = 0
    /\ power_flows = <<>>
    /\ raised = "none"
    /\ tick = <<>>
    /\ nsteps = 0

\* GridTopology.__init__: no connections, and no call made yet.
InitTopology ==
    /\ topology = <<>>
    /\ topo_op = [op |-> "none"]
    /\ topo_added = {}

\* No mapping handed out and no routing call made yet.
InitRouting ==
    /\ returned = NoData
    /\ route_op = [op |-> "none"]
    /\ route_ops = 0

\* No CostCalculator call under way.
InitCost ==
    /\ cost_args = NoData
    /\ cost_results = <<>>

\* No generation unit built yet.
InitGeneration ==
    /\ unit = NoObject
    /\ gen_call = [op |-> "none"]
    /\ gen_ops = 0

\* The main loop is between ticks and update_plot has not run; the fields
\* it reads are as Grid.__init__ and the setup left them.
InitVisualizer ==
    /\ stage = "idle"
    /\ viz_seen = NoData
    /\ published = [power_flows |-> <<>>, total_supply |-> 0,
                    total_demand |-> 0,
                    soc |-> [i \in 1..Len(NewBessList) |-> NewBessList[i].soc]]

\* bess_list as the setup registered it, and no run of the loop yet.
InitLoop ==
    /\ loop_bess = NewBessList
    /\ loop_run = NoData
    /\ loop_runs = 0
    /\ conditioned = NoData

\* The generation table of a cost_config.json that names the import's
\* rate by the key calculate_generation_cost builds.
ConfiguredGenerationCosts ==
    [k \in {<<"solar", "_generation_cost_per_kwh">>,
            <<"wind", "_generation_cost_per_kwh">>,
            <<"external_grid", "_generation_cost_per_kwh">>} |->
        IF k[1] = "solar" THEN 250 ELSE IF k[1] = "wind" THEN 320 ELSE 800]

\* Grid.__init__ where no cost_config.json is found: both external-grid
\* costs are 0.0 and the calculator holds the default table.
InitBilling ==
    billing = [table |-> generation_costs, raised |-> "none", ticks |-> 0,
               total_external_grid_cost |-> 0,
               current_external_grid_cost |-> 0, last |-> NoData]

\* The vehicle as the driver builds it (simulation.py:589-601), no call
\* made on it yet.
InitVehicle ==
    vehicle = [obj |-> NewVehicle(Num(0, 1)), calls |-> 0, last |-> NoData]

\* Objects driven on their own, as their constructors leave them.
InitSolo == InitBilling /\ InitVehicle

InitHarness ==
    InitTopology /\ InitRouting /\ InitCost /\ InitGeneration
        /\ InitVisualizer /\ InitLoop /\ InitSolo

\* A battery as test_cost_integration.py builds it.
InitBat ==
    /\ bat = BaseBattery(CHOOSE c \in BatteryConfigs :
                             c.max_charge_power_kw = 0)
    /\ calls = <<>>

InitGc ==
    /\ gc = NoObject
    /\ gc_calls = <<>>

InitBattery ==
    /\ bat \in {BaseBattery(c) : c \in BatteryConfigs}
    /\ calls = <<>>
    /\ InitEv
    /\ InitGc
    /\ InitGrid
    /\ InitHarness

\* arrival_prob and departure_prob lie strictly between 0 and 1 at every
\* hour, so every combination of draws is possible at every current_time.
simulate_arrivals_departures ==
    \E arr \in [{available_evs[i] : i \in 1..Len(available_evs)}
                   -> {0} \cup StationIds] :
      \E a \in {ArrivalLoop(available_evs, 1, arr, EvState, <<>>)} :
        \E dep \in [{a.es.connected[i] : i \in 1..Len(a.es.connected)}
                      -> BOOLEAN] :
          \E d \in {DepartureLoop(a.es.connected, 1, dep, a.es)} :
            /\ available_evs' = d.available
            /\ connected_evs' = d.connected
            /\ station_evs' = d.stations
            /\ ev_connected' = d.plugged
            /\ ev_status' = d.status
            /\ ev_log' = a.log
            /\ UNCHANGED <<batVars, gcVars, gridVars, harnessVars>>

NextEv == simulate_arrivals_departures

InitEvSpec == InitBat /\ InitEv /\ InitGc /\ InitGrid /\ InitHarness

SpecEv == InitEvSpec /\ [][NextEv]_vars

BatteryCharge ==
    \E p \in PowerSet, d \in DurSet, t \in BatteryTimes :
        /\ Len(calls) < MaxOps
        /\ bat' = charge(bat, p, d, t)
        /\ calls' = Append(calls, Call("charge", p, d, t, bat))
        /\ UNCHANGED <<evVars, gcVars, gridVars, harnessVars>>

BatteryDischarge ==
    \E p \in PowerSet, d \in DurSet, t \in BatteryTimes :
        /\ Len(calls) < MaxOps
        /\ bat' = discharge(bat, p, d, t)
        /\ calls' = Append(calls, Call("discharge", p, d, t, bat))
        /\ UNCHANGED <<evVars, gcVars, gridVars, harnessVars>>

BatteryStorageCost ==
    \E d \in DurSet, t \in BatteryTimes :
        /\ Len(calls) < MaxOps
        /\ bat' = calculate_storage_cost(bat, d, t)
        /\ calls' = Append(calls, Call("storage", 0, d, t, bat))
        /\ UNCHANGED <<evVars, gcVars, gridVars, harnessVars>>

NextBattery == BatteryCharge \/ BatteryDischarge \/ BatteryStorageCost

SpecBattery == InitBattery /\ [][NextBattery]_vars

\* ------------------------------------------------ conditioner operations
ConditionerKinds == {"GridBase", "Inverter", "Substation", "Transformer"}
EfficiencySet == {-10, 0, 95, 100, 150}
TransferInputs == {NoData, <<-20>>, <<0>>, <<20>>, <<60>>}

NewConditioner ==
    \E kind \in ConditionerKinds, e \in EfficiencySet :
        LET r == GridBase(kind, e)
        IN  /\ Len(gc_calls) < MaxGcOps
            /\ gc' = r.obj
            /\ gc_calls' = Append(gc_calls,
                   [op |-> "init", kind |-> kind, arg |-> <<e>>,
                    sim_time |-> Noon, raised |-> r.raised,
                    before |-> gc, after |-> r.obj, ret |-> NoData])
            /\ UNCHANGED <<batVars, evVars, gridVars, harnessVars>>

ConditionerTransfer ==
    \E x \in TransferInputs, t \in TimeSet :
        LET r == transfer_power(gc, x, t)
        IN  /\ Len(gc_calls) < MaxGcOps
            /\ gc # NoObject
            /\ gc' = r.obj
            /\ gc_calls' = Append(gc_calls,
                   [op |-> "transfer", kind |-> gc.kind, arg |-> x,
                    sim_time |-> t, raised |-> r.raised,
                    before |-> gc, after |-> r.obj, ret |-> r.ret])
            /\ UNCHANGED <<batVars, evVars, gridVars, harnessVars>>

NextGc == NewConditioner \/ ConditionerTransfer

InitGcSpec == InitBat /\ InitEv /\ InitGc /\ InitGrid /\ InitHarness

SpecGc == InitGcSpec /\ [][NextGc]_vars

\* --------------------------------------------------------- grid operations
\* One call of Grid.simulate_step by the driver's loop, with what the
\* demand functions and the weather walks return at current_time. The
\* driver catches nothing: an exception ends the run.
SimulateStep ==
    \E t \in GridTimes, dh \in HouseDemands, di \in IndustryDemands,
       ds \in StationDemands :
      \E dem \in {[house |-> dh, industry |-> di, station |-> ds,
                   ev |-> EvDemand]} :
        \E w \in {simulate_step(
                      World(consumers, plants, inverters, supply_sources,
                            total_supply, total_demand, bess_list,
                            total_external_grid_cost,
                            current_external_grid_cost, power_flows),
                      connections, get_routing(routing_config).map,
                      station_evs, t, dem,
                      solar_generation_factor(t, last_weather),
                      wind_factor, duration_h)} :
            /\ nsteps < MaxSteps
            /\ raised = "none"
            /\ consumers' = w.cs
            /\ plants' = w.plants
            /\ inverters' = w.inverters
            /\ supply_sources' = w.supply_sources
            /\ total_supply' = w.total_supply
            /\ total_demand' = w.total_demand
            /\ bess_list' = w.bess_list
            /\ total_external_grid_cost' = w.total_external_grid_cost
            /\ current_external_grid_cost' = w.current_external_grid_cost
            /\ power_flows' = w.power_flows
            /\ raised' = w.raised
            /\ tick' = << [step |-> nsteps + 1, t |-> t, dem |-> dem,
                           sunlight |->
                               solar_generation_factor(t, last_weather),
                           wind |-> wind_factor,
                           connections |-> connections,
                           before |-> bess_list,
                           billed_before |-> total_external_grid_cost,
                           net_power |-> w.net_power,
                           served |-> w.served] >>
            /\ nsteps' = nsteps + 1
            /\ UNCHANGED <<connections, routing_config, batVars, evVars,
                           gcVars, harnessVars>>

\* The links the driver and its topology events switch.
TopologyLinks ==
    {<<"SolarSite_1", "Grid">>, <<"WindSite_1", "Grid">>,
     <<"Grid", conditioner_id>>}

EnableConnection ==
    \E e \in TopologyLinks :
        /\ nsteps < MaxSteps
        /\ raised = "none"
        /\ connections' = enable_connection(connections, e[1], e[2])
        /\ nsteps' = nsteps + 1
        /\ UNCHANGED <<gridObjects, routing_config, batVars, evVars, gcVars,
                       harnessVars>>

DisableConnection ==
    \E e \in TopologyLinks :
        /\ nsteps < MaxSteps
        /\ raised = "none"
        /\ connections' = disable_connection(connections, e[1], e[2])
        /\ nsteps' = nsteps + 1
        /\ UNCHANGED <<gridObjects, routing_config, batVars, evVars, gcVars,
                       harnessVars>>

Next == SimulateStep \/ EnableConnection \/ DisableConnection

\* The site as the driver assembles it: simulation.py:604-609 offers each
\* of the first SetupEvs vehicles to a station picked at random (0: the
\* vehicle is not in the slice).
InitSite ==
    \E arr \in [1..SetupEvs -> {0} \cup StationIds] :
        \E a \in {ArrivalLoop(SubSeq(all_evs, 1, SetupEvs), 1, arr,
                               [available |-> all_evs, connected |-> <<>>,
                                stations |-> [s \in StationIds |-> <<>>],
                                plugged |-> [e \in EvIds |-> FALSE],
                                status |-> [e \in EvIds |-> "idle"]],
                               <<>>)} :
            /\ available_evs = a.es.available
            /\ connected_evs = a.es.connected
            /\ station_evs = a.es.stations
            /\ ev_connected = a.es.plugged
            /\ ev_status = a.es.status
            /\ ev_log = <<>>

Init == InitBat /\ InitSite /\ InitGc /\ InitGrid /\ InitHarness

Spec == Init /\ [][Next]_vars

\* ------------------------------------------------- orchestrator properties
\* C2: simulate_step never raises: on the assembled site, with the default
\* tariff table and non-negative demand and generation, every tick runs to
\* completion.
C2_TickNeverRaises == raised = "none"

\* A tick that found a vehicle at a station and no base demand before it.
C2_Witness ==
    /\ tick # <<>>
    /\ \E st \in StationIds : station_evs[st] # <<>>
    /\ tick[1].dem.industry = 0
    /\ tick[1].dem.station = 0
    /\ raised = "ZeroDivisionError"

\* The supply the first solar plant's output would leave after the
\* inverter, the substations and the transformers, at the tick's sunlight.
PostLossSolar(k) ==
    IF is_connected(k.connections, solar_plants[1], "Grid")
    THEN (((((Min2((100 * k.sunlight) \div 100, 100) * 98) \div 100) * 99)
              \div 100) * 97) \div 100
    ELSE 0

\* The tick's demand sums return: no base demand at an "unknown" consumer
\* and no vehicle at a station.
DemandReturns(k) ==
    /\ k.dem.industry = 0
    /\ k.dem.station = 0
    /\ \A st \in StationIds : station_evs[st] = <<>>

\* C3: in a tick where post-loss supply exceeds demand by s > 0 and the
\* battery the surplus reaches (the first in bess_list) has SOC < 100,
\* max_charge_power_kw >= s and (capacity_kwh - remaining_capacity) /
\* duration_h >= s, simulate_step leaves that battery with power = +s in
\* mode charging and adds nothing to the external-grid cost.
C3_SurplusChargesBattery ==
    tick # <<>> =>
        LET k == tick[1]
            s == PostLossSolar(k) - total_demand
            b == k.before[1]
        IN  (/\ DemandReturns(k)
             /\ s > 0
             /\ b.soc < 100
             /\ b.max_charge_power_kw >= s
             /\ (b.capacity_kwh - b.remaining_capacity) \div duration_h >= s)
            => /\ raised = "none"
               /\ bess_list[1].power = s
               /\ bess_list[1].mode = "charging"
               /\ total_external_grid_cost = k.billed_before

\* A tick with a surplus the first battery could take, ended by generate.
C3_Witness ==
    /\ tick # <<>>
    /\ DemandReturns(tick[1])
    /\ PostLossSolar(tick[1]) - total_demand > 0
    /\ tick[1].before[1].soc < 100
    /\ tick[1].before[1].capacity_kwh - tick[1].before[1].remaining_capacity
           >= PostLossSolar(tick[1]) - total_demand
    /\ plants[solar_plants[1]].current_output > 0
    /\ raised = "KeyError"
    /\ bess_list = tick[1].before

\* C4: whenever net < 0 remains after the battery loop, the full residual
\* |net| is billed: the tick's external-grid cost is what
\* calculate_external_grid_cost(|net|, time) returns and the cumulative
\* external-grid cost grows by exactly that.
C4_ShortfallBilled ==
    tick # <<>> =>
        LET k == tick[1]
            c == calculate_external_grid_cost(Abs(k.net_power), k.t)
        IN  (Len(k.served) = Len(bess_list) /\ k.net_power < 0)
            => /\ c.raised = "none"
               /\ raised = "none"
               /\ current_external_grid_cost = c.total
               /\ total_external_grid_cost = k.billed_before + c.total

\* A tick whose battery loop left a shortfall, both batteries served.
C4_Witness ==
    /\ tick # <<>>
    /\ Len(tick[1].served) = Len(bess_list)
    /\ \A i \in 1..Len(bess_list) : tick[1].served[i].op = "discharge"
    /\ tick[1].net_power < 0
    /\ raised = "KeyError"
    /\ total_external_grid_cost = 0

\* -------------------------------------------------- conditioner properties
\* C10: constructing GridBase, Inverter, Substation or Transformer with an
\* efficiency outside [0, 1] raises ValueError and yields no object; with an
\* efficiency inside [0, 1], endpoints included, it returns the object.
C10_EfficiencyRange ==
    \A i \in 1..Len(gc_calls) :
        LET c == gc_calls[i]
            e == c.arg[1]
        IN  c.op = "init" =>
              /\ (e < 0 \/ e > 100)
                    => (c.raised = "ValueError" /\ c.after = NoObject)
              /\ (0 <= e /\ e <= 100)
                    => /\ c.raised = "none"
                       /\ c.after # NoObject
                       /\ c.after.kind = c.kind
                       /\ c.after.efficiency = e

\* Both out-of-range sides were refused and an endpoint was accepted.
C10_Witness ==
    /\ \E i \in 1..Len(gc_calls) :
          gc_calls[i].op = "init" /\ gc_calls[i].arg[1] > 100
             /\ gc_calls[i].raised = "ValueError"
    /\ \E i \in 1..Len(gc_calls) :
          gc_calls[i].op = "init" /\ gc_calls[i].arg[1] < 0
             /\ gc_calls[i].raised = "ValueError"
    /\ gc # NoObject /\ gc.efficiency = 100

\* --------------------------------------------------- EV population properties
Count(s, x) == Cardinality({i \in 1..Len(s) : s[i] = x})

\* C8: after any sequence of simulate_arrivals_departures ticks every EV of
\* all_evs is in exactly one of available_evs and connected_evs, once.
C8_EvPartition ==
    /\ \A e \in EvIds :
          Count(available_evs, e) + Count(connected_evs, e) = 1
    /\ \A i \in 1..Len(available_evs) : available_evs[i] \in EvIds
    /\ \A i \in 1..Len(connected_evs) : connected_evs[i] \in EvIds

\* Some EV is connected while an EV that left a station is available again
\* (a returning EV is appended behind the ones that never left).
C8_Witness ==
    /\ Len(connected_evs) > 0
    /\ Len(available_evs) > 1
    /\ available_evs[Len(available_evs)] < available_evs[1]

\* C9: no station holds more EVs than its num_ports, and a connect_ev on a
\* full station returns False and changes neither the station list, the
\* plugged-in flags nor the manager's lists.
C9_PortsBounded ==
    /\ \A st \in StationIds : Len(station_evs[st]) <= num_ports[st]
    /\ \A i \in 1..Len(ev_log) :
          LET a == ev_log[i]
          IN  a.full => (~a.ok /\ ~a.changed)

\* An arrival was turned away by a full station.
C9_Witness ==
    \E i \in 1..Len(ev_log) :
        LET a == ev_log[i]
        IN  /\ ~a.ok /\ a.full
            /\ Len(station_evs[a.station]) = num_ports[a.station]

\* ------------------------------------------------- battery API properties
\* The battery as it was right after call i.
AfterCall(i) == IF i < Len(calls) THEN calls[i + 1].before ELSE bat

ClampCharge(b, p) == Min2(p, b.max_charge_power_kw)
ClampDischarge(b, p) == Min2(p, b.max_discharge_power_kw)

\* C1: after every charge, discharge or calculate_storage_cost call, in any
\* sequence, 0 <= remaining_capacity <= capacity_kwh, 0 <= SOC <= 100 and
\* SOC = remaining_capacity / capacity_kwh * 100.
C1_CapacityAndSoc ==
    \A i \in 1..Len(calls) :
        LET b == AfterCall(i)
        IN  /\ 0 <= b.remaining_capacity
            /\ b.remaining_capacity <= b.capacity_kwh
            /\ 0 <= b.soc /\ b.soc <= 100
            /\ b.soc * b.capacity_kwh = b.remaining_capacity * 100

\* A charge was cut at capacity and a later discharge emptied the battery.
C1_Witness ==
    /\ bat.remaining_capacity = 0 /\ bat.soc = 0
    /\ \E i \in 1..Len(calls) :
          /\ calls[i].op = "charge" /\ calls[i].power_kw > 0
          /\ AfterCall(i).remaining_capacity = bat.capacity_kwh
    /\ calls[Len(calls)].op = "discharge"
    /\ calls[Len(calls)].before.remaining_capacity > 0

RoundTripPair(i) ==
    LET c == calls[i]
        e == calls[i + 1]
    IN  /\ c.op = "charge" /\ e.op = "discharge"
        /\ c.power_kw = e.power_kw /\ c.duration_h = e.duration_h
        /\ c.before.charge_efficiency = EffOne
        /\ c.before.discharge_efficiency = EffOne
        /\ ClampCharge(c.before, c.power_kw)
               = ClampDischarge(c.before, c.power_kw)
        /\ c.before.remaining_capacity
               + ClampCharge(c.before, c.power_kw) * c.duration_h
               <= c.before.capacity_kwh

C6_ClampIdempotent ==
    \A i \in 1..Len(calls) :
        LET c == calls[i]
            b == c.before
        IN  /\ (c.op = "charge" /\ c.power_kw > b.max_charge_power_kw)
                => AfterCall(i) = charge(b, b.max_charge_power_kw,
                                         c.duration_h, c.sim_time)
            /\ (c.op = "discharge"
                    /\ c.power_kw > b.max_discharge_power_kw)
                => AfterCall(i) = discharge(b, b.max_discharge_power_kw,
                                            c.duration_h, c.sim_time)

\* Both an over-limit charge and an over-limit discharge were made.
C6_Witness ==
    /\ \E i \in 1..Len(calls) :
          /\ calls[i].op = "charge"
          /\ calls[i].power_kw > calls[i].before.max_charge_power_kw
          /\ AfterCall(i).power = calls[i].before.max_charge_power_kw
    /\ \E i \in 1..Len(calls) :
          /\ calls[i].op = "discharge"
          /\ calls[i].power_kw > calls[i].before.max_discharge_power_kw
          /\ AfterCall(i).power = -calls[i].before.max_discharge_power_kw

SohStep ==
    LET c == calls'[Len(calls')]
        p == IF c.op = "charge" THEN ClampCharge(bat, c.power_kw)
             ELSE ClampDischarge(bat, c.power_kw)
    IN  /\ bat'.soh <= bat.soh
        /\ 0 <= bat'.soh /\ bat'.soh <= 100
        /\ c.op \in {"charge", "discharge"}
             => bat'.soh = Max2(0, bat.soh - p * c.duration_h)
        /\ c.op = "storage" => bat'.soh = bat.soh

\* C7: SOH starts in [0, 100], never increases and stays in range; a charge
\* or discharge lowers it by the clamped power times the duration (1 % per
\* unit), floored at 0, and calculate_storage_cost leaves it alone.
C7_SohMonotone ==
    /\ bat.soh \in 0..100
    /\ [][SohStep]_vars

\* SOH was floored at 0 by a call that would have taken it below 0.
C7_Witness ==
    /\ Len(calls) > 0
    /\ bat.soh = 0
    /\ LET c == calls[Len(calls)]
       IN  /\ c.before.soh > 0
           /\ c.op = "discharge"
           /\ c.before.soh
                < ClampDischarge(c.before, c.power_kw) * c.duration_h

\* ------------------------------------------- conditioner transfer properties
\* C11: on an Inverter, Substation or Transformer, transfer_power with an
\* input >= 0 completes, sets power_in to the input and power_out to
\* input * efficiency, returns power_out, and accrues the operation cost
\* computed on the input (nothing when the input is 0).
C11_TransferScales ==
    \A i \in 1..Len(gc_calls) :
        LET c == gc_calls[i]
        IN  (/\ c.op = "transfer"
             /\ c.kind \in {"Inverter", "Substation", "Transformer"}
             /\ c.arg # NoData /\ c.arg[1] >= 0)
            => /\ c.raised = "none"
               /\ c.after.power_in = c.arg
               /\ c.after.power_out
                    = <<(c.arg[1] * c.before.efficiency) \div 100>>
               /\ c.ret = c.after.power_out
               /\ c.arg[1] > 0 =>
                    /\ c.after.current_operation_cost
                         = calculate_grid_operation_cost(c.arg[1],
                               c.before.operation_type, c.sim_time).total
                    /\ c.after.total_operation_cost
                         = c.before.total_operation_cost
                             + c.after.current_operation_cost

\* An inverter of efficiency 0.95 was handed a positive input and the call
\* raised while looking up its tariff.
C11_Witness ==
    \E i \in 1..Len(gc_calls) :
        LET c == gc_calls[i]
        IN  /\ c.op = "transfer" /\ c.kind = "Inverter"
            /\ c.before.efficiency = 95
            /\ c.arg # NoData /\ c.arg[1] > 0
            /\ c.raised = "KeyError"

\* C12: transfer_power with input None or negative sets power_in and
\* power_out to None (not 0), sets the current operation cost to 0, leaves
\* the cumulative operation cost unchanged and returns None.
C12_NoDataSentinel ==
    \A i \in 1..Len(gc_calls) :
        LET c == gc_calls[i]
        IN  (c.op = "transfer" /\ (c.arg = NoData \/ c.arg[1] < 0))
            => /\ c.raised = "none"
               /\ c.after.power_in = NoData /\ c.after.power_in # <<0>>
               /\ c.after.power_out = NoData /\ c.after.power_out # <<0>>
               /\ c.after.current_operation_cost = 0
               /\ c.after.total_operation_cost
                    = c.before.total_operation_cost
               /\ c.ret = NoData

\* A transformer that had accrued a cost was then given a negative input.
C12_Witness ==
    \E i \in 1..Len(gc_calls) :
        LET c == gc_calls[i]
        IN  /\ c.op = "transfer" /\ c.arg # NoData /\ c.arg[1] < 0
            /\ c.before.total_operation_cost > 0
            /\ c.before.current_operation_cost > 0
            /\ c.after.power_in = NoData
            /\ c.after.total_operation_cost > 0

\* ------------------------------------------------------ topology operations
\* The node pairs the topology calls are made with: a link, its reverse,
\* and links sharing its source or its target.
TopologyPairs ==
    {<<"Grid", "Substation">>, <<"Substation", "Grid">>,
     <<"Grid", "Transformer">>, <<"Substation", "Transformer">>}

TopologyCall(op, e, enabled) ==
    [op |-> op, source_id |-> e[1], target_id |-> e[2], enabled |-> enabled]

AddConnection ==
    \E e \in TopologyPairs, enabled \in BOOLEAN :
        /\ topology' = add_connection(topology, e[1], e[2], enabled)
        /\ topo_op' = TopologyCall("add", e, enabled)
        /\ topo_added' = topo_added \cup {e}
        /\ UNCHANGED <<batVars, evVars, gcVars, gridVars, routeVars,
                       costVars, genVars, vizVars, probeVars>>

EnableTopologyConnection ==
    \E e \in TopologyPairs :
        /\ topology' = enable_connection(topology, e[1], e[2])
        /\ topo_op' = TopologyCall("enable", e, TRUE)
        /\ UNCHANGED <<topo_added, batVars, evVars, gcVars, gridVars,
                       routeVars, costVars, genVars, vizVars, probeVars>>

DisableTopologyConnection ==
    \E e \in TopologyPairs :
        /\ topology' = disable_connection(topology, e[1], e[2])
        /\ topo_op' = TopologyCall("disable", e, FALSE)
        /\ UNCHANGED <<topo_added, batVars, evVars, gcVars, gridVars,
                       routeVars, costVars, genVars, vizVars, probeVars>>

NextTopology ==
    AddConnection \/ EnableTopologyConnection \/ DisableTopologyConnection

InitTopologySpec == InitBat /\ InitEv /\ InitGc /\ InitGrid /\ InitHarness

SpecTopology == InitTopologySpec /\ [][NextTopology]_vars

\* ------------------------------------------------------ topology properties
\* What one topology call may change: the pair it names, and that pair only
\* as the call says.
TopologyStep ==
    LET c == topo_op'
        e == <<c.source_id, c.target_id>>
    IN  /\ \A p \in TopologyPairs \ {e} :
              /\ is_connected(topology', p[1], p[2])
                   = is_connected(topology, p[1], p[2])
              /\ (p \in DOMAIN topology') = (p \in DOMAIN topology)
        /\ c.op = "add"
             => is_connected(topology', e[1], e[2]) = c.enabled
        /\ (c.op = "enable" /\ e \in topo_added)
             => is_connected(topology', e[1], e[2])
        /\ (c.op = "disable" /\ e \in topo_added)
             => ~is_connected(topology', e[1], e[2])
        /\ (c.op \in {"enable", "disable"} /\ e \notin topo_added)
             => topology' = topology

\* C13: is_connected(a, b) is true only for a pair that was added, each
\* add/enable/disable on an added pair (a, b) sets is_connected(a, b) to what
\* the call says, enable or disable on a never-added pair changes nothing,
\* and no call on (a, b) changes (b, a) or any other pair.
C13_TopologyContract ==
    /\ [](\A p \in TopologyPairs :
             /\ is_connected(topology, p[1], p[2]) => p \in topo_added
             /\ (p \in DOMAIN topology) = (p \in topo_added))
    /\ [][TopologyStep]_vars

\* Grid->Substation is enabled while its reverse was added disabled, a third
\* pair was never added, and the last call tried to enable that third pair.
C13_Witness ==
    /\ is_connected(topology, "Grid", "Substation")
    /\ <<"Substation", "Grid">> \in topo_added
    /\ ~is_connected(topology, "Substation", "Grid")
    /\ topo_op.op = "enable"
    /\ <<topo_op.source_id, topo_op.target_id>> \notin topo_added
    /\ ~is_connected(topology, topo_op.source_id, topo_op.target_id)

\* ---------------------------------------------------- connectivity per tick
\* The step is a simulate_step call (not a topology event).
IsTick == tick' # <<>> /\ tick'[1].step = nsteps' /\ nsteps' = nsteps + 1

RECURSIVE SumOver(_, _)
SumOver(f, S) ==
    IF S = {} THEN 0
    ELSE LET x == CHOOSE y \in S : TRUE IN f[x] + SumOver(f, S \ {x})

\* What a tick does with plant p when its link to the grid, as the topology
\* stands when the tick starts, is disabled.
DisabledPlantStep ==
    IsTick =>
        /\ \A p \in PlantIds :
              ~is_connected(connections, p, "Grid")
                => /\ supply_sources'[p] = 0
                   /\ plants'[p] = plants[p]
                   /\ inverters'[p] = inverters[p]
        /\ raised' = "none" =>
              total_supply'
                = SumOver(supply_sources',
                      {p \in PlantIds : is_connected(connections, p, "Grid")})

\* C14: connectivity is read afresh by every tick: a plant whose plant->Grid
\* link is disabled when the tick starts is not sampled (the plant and its
\* inverter are untouched), its supply_sources entry is 0 after the tick and
\* total_supply holds nothing from it, whatever the link was the tick before.
C14_ConnectivityPerTick == [][DisabledPlantStep]_vars

\* A noon tick ran to its end with the sun up and the solar link disabled by
\* an earlier topology event, after a tick that had found the link enabled.
C14_Witness ==
    /\ tick # <<>> /\ tick[1].step = nsteps
    /\ nsteps >= 3
    /\ tick[1].t = Noon /\ tick[1].sunlight > 0
    /\ ~is_connected(tick[1].connections, solar_plants[1], "Grid")
    /\ is_connected(tick[1].connections, wind_plants[1], "Grid")
    /\ raised = "none"
    /\ supply_sources[solar_plants[1]] = 0
    /\ plants[solar_plants[1]].current_output = 0

\* -------------------------------------------------------- routing operations
\* The new_config arguments update_routing is called with: the empty dict,
\* one key, a whole source's shares, and a key the table does not hold yet.
RoutingUpdates ==
    { <<>>,
      "solar_to_houses" :> 50,
      ("solar_to_houses" :> 20) @@ ("solar_to_industries" :> 30)
          @@ ("solar_to_stations" :> 50),
      ("wind_to_stations" :> 100) @@ ("grid_to_houses" :> 10) }

\* The items a caller overwrites in a mapping it was handed.
ReturnedWrites == {<<"solar_to_houses", 0>>, <<"bess_to_stations", 77>>}

UpdateRouting ==
    \E new_config \in RoutingUpdates :
        /\ route_ops < MaxRoutingOps
        /\ routing_config' = update_routing(routing_config, new_config)
        /\ returned' = IF returned # NoData /\ returned.shared
                       THEN [returned EXCEPT !.map = routing_config']
                       ELSE returned
        /\ route_op' = [op |-> "update", arg |-> new_config]
        /\ route_ops' = route_ops + 1
        /\ UNCHANGED <<gridObjects, connections, nsteps, batVars, evVars,
                       gcVars, topoVars, costVars, genVars, vizVars,
                       probeVars>>

GetRouting ==
    /\ route_ops < MaxRoutingOps
    /\ returned' = get_routing(routing_config)
    /\ route_op' = [op |-> "get", arg |-> <<>>]
    /\ route_ops' = route_ops + 1
    /\ UNCHANGED <<gridVars, batVars, evVars, gcVars, topoVars, costVars,
                   genVars, vizVars, probeVars>>

\* The caller assigns to an item of the mapping it holds; the manager's
\* dict changes with it only if it is the same object.
MutateReturned ==
    \E x \in ReturnedWrites :
        /\ route_ops < MaxRoutingOps
        /\ returned # NoData
        /\ returned' = [returned EXCEPT !.map[x[1]] = x[2]]
        /\ routing_config' = IF returned.shared
                             THEN [routing_config EXCEPT ![x[1]] = x[2]]
                             ELSE routing_config
        /\ route_op' = [op |-> "mutate", arg |-> x]
        /\ route_ops' = route_ops + 1
        /\ UNCHANGED <<gridObjects, connections, nsteps, batVars, evVars,
                       gcVars, topoVars, costVars, genVars, vizVars,
                       probeVars>>

NextRouting == UpdateRouting \/ GetRouting \/ MutateReturned

InitRoutingSpec == InitBat /\ InitEv /\ InitGc /\ InitGrid /\ InitHarness

SpecRouting == InitRoutingSpec /\ [][NextRouting]_vars

\* -------------------------------------------------------- routing properties
RoutingStep ==
    LET c == route_op'
    IN  route_ops' = route_ops + 1 =>
          /\ c.op = "update" =>
                /\ DOMAIN routing_config'
                     = DOMAIN routing_config \cup DOMAIN c.arg
                /\ \A k \in DOMAIN c.arg : routing_config'[k] = c.arg[k]
                /\ \A k \in DOMAIN routing_config \ DOMAIN c.arg :
                      routing_config'[k] = routing_config[k]
                /\ UNCHANGED <<gridObjects, connections, nsteps>>
          /\ c.op = "get" =>
                /\ returned'.map = routing_config
                /\ routing_config' = routing_config
          /\ c.op = "mutate" =>
                /\ returned'.map[c.arg[1]] = c.arg[2]
                /\ routing_config' = routing_config

\* C15: update_routing merges by key (keys of new_config take the new value,
\* all other keys keep theirs) and changes nothing else in the grid;
\* get_routing hands out a copy, so writing to a mapping it returned leaves
\* the manager's routing table, which later ticks read, as it was.
C15_RoutingMerge == [][RoutingStep]_vars

\* A partial update changed one share and kept the rest, and a caller then
\* overwrote that share in the copy it was handed.
C15_Witness ==
    /\ route_op.op = "mutate" /\ route_op.arg[1] = "solar_to_houses"
    /\ returned # NoData
    /\ returned.map.solar_to_houses = 0
    /\ routing_config.solar_to_houses = 50
    /\ routing_config.solar_to_industries = NewRouting.solar_to_industries
    /\ routing_config.bess_to_stations = NewRouting.bess_to_stations

\* ----------------------------------------------------------- cost operations
\* The public cost operations of CostCalculator and the operation classes
\* its callers and its test pass (<<>>: the operation takes no class).
CostOperations ==
    { <<"battery_charging", <<>>>>, <<"battery_discharging", <<>>>>,
      <<"battery_storage", <<>>>>,
      <<"generation", <<"solar">>>>, <<"generation", <<"wind">>>>,
      <<"external_grid", <<>>>>,
      <<"grid_operation", <<"transmission">>>>,
      <<"grid_operation", <<"distribution">>>>,
      <<"grid_operation", <<"substation">>>>,
      <<"consumer", <<"house">>>>, <<"consumer", <<"industry">>>>,
      <<"consumer", <<"ev_charging">>>> }

CostEnergies == {0, 1, 10}
CostDurations == {1, 4}

\* One CostCalculator call: the exception raised and total_cost_inr.
cost_operation(a) ==
    IF a.op = "battery_charging"
    THEN [raised |-> "none",
          total |-> calculate_battery_charging_cost(
                        a.energy_kwh, a.duration_h, a.t)]
    ELSE IF a.op = "battery_discharging"
    THEN [raised |-> "none",
          total |-> calculate_battery_discharging_cost(
                        a.energy_kwh, a.duration_h, a.t)]
    ELSE IF a.op = "battery_storage"
    THEN [raised |-> "none",
          total |-> calculate_battery_storage_cost(
                        a.energy_kwh, a.duration_h, a.t)]
    ELSE IF a.op = "generation"
    THEN calculate_generation_cost(a.energy_kwh, a.class[1], a.t)
    ELSE IF a.op = "grid_operation"
    THEN calculate_grid_operation_cost(a.energy_kwh, a.class[1], a.t)
    ELSE IF a.op = "consumer"
    THEN calculate_consumer_cost(a.energy_kwh, a.class[1], a.t)
    ELSE calculate_external_grid_cost(a.energy_kwh, a.t)

InitCostArgs ==
    /\ cost_args \in
          { [op |-> o[1], class |-> o[2], energy_kwh |-> e,
             duration_h |-> d, t |-> t] :
              o \in CostOperations, e \in CostEnergies,
              d \in CostDurations, t \in TimeSet }
    /\ cost_results = <<>>

CalculateCost ==
    /\ Len(cost_results) < MaxCostCalls
    /\ cost_results' = Append(cost_results, cost_operation(cost_args))
    /\ UNCHANGED <<cost_args, batVars, evVars, gcVars, gridVars, topoVars,
                   routeVars, genVars, vizVars, probeVars>>

InitCostSpec ==
    InitBat /\ InitEv /\ InitGc /\ InitGrid /\ InitTopology /\ InitRouting
        /\ InitCostArgs /\ InitGeneration /\ InitVisualizer /\ InitLoop
        /\ InitSolo

SpecCost == InitCostSpec /\ [][CalculateCost]_vars

\* ----------------------------------------------------------- cost properties
\* The tariff table's base rate for an operation and its class.
BaseRate(a) ==
    IF a.op = "battery_charging" THEN charging_cost_per_kwh
    ELSE IF a.op = "battery_discharging" THEN discharging_cost_per_kwh
    ELSE IF a.op = "battery_storage" THEN storage_cost_per_kwh_hour
    ELSE IF a.op = "generation"
    THEN generation_costs[<<a.class[1], "_generation_cost_per_kwh">>]
    ELSE IF a.op = "external_grid"
    THEN generation_costs[<<"external_grid", "_cost_per_kwh">>]
    ELSE IF a.op = "grid_operation"
    THEN grid_operation_costs[<<a.class[1], "_cost_per_kwh">>]
    ELSE IF a.class[1] = "ev_charging"
    THEN consumer_costs[<<"ev_charging", "_cost_per_kwh">>]
    ELSE consumer_costs[<<a.class[1], "_consumption_cost_per_kwh">>]

\* energy * base_rate * time multiplier * seasonal multiplier in half-INR:
\* battery energies are in 10 MWh, storage durations in quarter hours, and
\* the other operations are handed a power held for one hour (40 MWh).
ExpectedTotal(a) ==
    LET m == get_time_multiplier(a.t) * get_seasonal_multiplier(a.t)
    IN  IF a.op \in {"battery_charging", "battery_discharging"}
        THEN 2 * a.energy_kwh * BaseRate(a) * m
        ELSE IF a.op = "battery_storage"
        THEN (a.energy_kwh * a.duration_h * BaseRate(a) * m) \div 2
        ELSE 8 * a.energy_kwh * BaseRate(a) * m

\* C16: every cost operation returns energy * base rate * time-of-day
\* multiplier * seasonal multiplier (storage: energy * duration * that rate);
\* charging at a neutral hour with seasonal multiplier 1.0 costs 6.50 INR
\* per kWh; and the same arguments always give the same result.
C16_CostFormula ==
    \A i \in 1..Len(cost_results) :
        /\ cost_results[i].raised = "none"
        /\ cost_results[i].total = ExpectedTotal(cost_args)
        /\ (/\ cost_args.op = "battery_charging"
            /\ get_time_multiplier(cost_args.t) = 10
            /\ get_seasonal_multiplier(cost_args.t) = 10)
              => cost_results[i].total
                   = 2 * cost_args.energy_kwh * 650 * 100
        /\ cost_results[i] = cost_results[1]

\* External-grid energy was priced twice with the same arguments and both
\* calls raised on the tariff key.
C16_Witness ==
    /\ Len(cost_results) = MaxCostCalls
    /\ cost_args.op = "external_grid"
    /\ cost_args.energy_kwh > 0
    /\ \A i \in 1..Len(cost_results) : cost_results[i].raised = "KeyError"

\* ------------------------------------------------------ generation operations
\* The units generate is called on: a bare GenerationBase (no generation
\* function), a solar plant and a wind plant.
GenerationUnits ==
    { GenerationBase(100, "site", "none"),
      SolarPowerPlant(100, "site"),
      WindPowerPlant(100, "site") }

\* The keyword arguments of a generate call: none, a sunlight factor in
\* hundredths, or a wind speed in m/s.
GenerateKwargs ==
    {<<>>} \cup {"sunlight_factor" :> x : x \in {-50, 0, 80, 150}}
           \cup {"wind_speed_m_s" :> x : x \in {-6, 0, 6, 24}}

InitGenerationUnit ==
    /\ unit \in GenerationUnits
    /\ gen_call = [op |-> "none"]
    /\ gen_ops = 0

Generate ==
    \E kwargs \in GenerateKwargs, t \in TimeSet :
        LET r == generate(unit, kwargs, t)
        IN  /\ gen_ops < MaxGenOps
            /\ unit' = r.obj
            /\ gen_call' = [op |-> "generate", kwargs |-> kwargs,
                            sim_time |-> t, raised |-> r.raised,
                            before |-> unit, after |-> r.obj, ret |-> r.ret]
            /\ gen_ops' = gen_ops + 1
            /\ UNCHANGED <<batVars, evVars, gcVars, gridVars, topoVars,
                           routeVars, costVars, vizVars, probeVars>>

InitGenerationSpec ==
    InitBat /\ InitEv /\ InitGc /\ InitGrid /\ InitTopology /\ InitRouting
        /\ InitCost /\ InitGenerationUnit /\ InitVisualizer /\ InitLoop
        /\ InitSolo

SpecGeneration == InitGenerationSpec /\ [][Generate]_vars

\* ------------------------------------------------------ generation properties
\* C17: generate on a unit without a generation function raises
\* NotImplementedError and leaves current_output and the cumulative
\* generation cost as they were; on a unit with a generation function whose
\* driver gives a positive output, generate completes, returns that output
\* and accrues its generation cost.
C17_GenerateContract ==
    gen_call.op = "generate" =>
        LET c == gen_call
        IN  /\ c.before.generation_function = "none"
                 => /\ c.raised = "NotImplementedError"
                    /\ c.after.current_output = c.before.current_output
                    /\ c.after.total_generation_cost
                         = c.before.total_generation_cost
            /\ (c.before.generation_function # "none"
                  /\ c.after.current_output > 0)
                 => /\ c.raised = "none"
                    /\ c.ret = c.after.current_output
                    /\ c.after.current_operation_cost > 0
                    /\ c.after.total_generation_cost
                         = c.before.total_generation_cost
                             + c.after.current_operation_cost

\* A solar plant was given sunlight factor 0.8: its output was set and the
\* call then raised on the tariff key, with no cost accrued.
C17_Witness ==
    /\ gen_call.op = "generate"
    /\ gen_call.before.generation_function = "solar_generation_function"
    /\ gen_call.kwargs = ("sunlight_factor" :> 80)
    /\ gen_call.after.current_output = 80
    /\ gen_call.raised = "KeyError"
    /\ gen_call.after.total_generation_cost
         = gen_call.before.total_generation_cost

C19_ClassFlows ==
    tick # <<>> =>
        LET k == tick[1]
            Ps == PostLossSolar(k)
            Pw == supply_sources[wind_plants[1]]
            r == routing_config
        IN  (/\ DemandReturns(k)
             /\ Ps > 0
             /\ is_connected(k.connections, "Grid", conditioner_id))
            => /\ raised = "none"
               /\ {<<"Grid", "Houses">>, <<"Grid", "Industries">>,
                   <<"Grid", "Stations">>} \subseteq DOMAIN power_flows
               /\ power_flows[<<"Grid", "Houses">>]
                    = (Ps * r.solar_to_houses + Pw * r.wind_to_houses)
                          \div 100
               /\ power_flows[<<"Grid", "Industries">>]
                    = (Ps * r.solar_to_industries
                         + Pw * r.wind_to_industries) \div 100
               /\ power_flows[<<"Grid", "Stations">>]
                    = (Ps * r.solar_to_stations + Pw * r.wind_to_stations)
                          \div 100

\* A tick with the sun up, the solar plant and the substation linked and
\* every demand returning ended in generate, with no flow recorded.
C19_Witness ==
    /\ tick # <<>>
    /\ DemandReturns(tick[1])
    /\ PostLossSolar(tick[1]) > 0
    /\ is_connected(tick[1].connections, "Grid", conditioner_id)
    /\ raised = "KeyError"
    /\ power_flows = <<>>
    /\ supply_sources[solar_plants[1]] = 0

\* -------------------------------------------- tick beside the visualizer
\* The attributes of the grid and its objects as the tick's work so far
\* has left them.
Store(w) ==
    /\ consumers' = w.cs
    /\ plants' = w.plants
    /\ inverters' = w.inverters
    /\ supply_sources' = w.supply_sources
    /\ total_supply' = w.total_supply
    /\ total_demand' = w.total_demand
    /\ bess_list' = w.bess_list
    /\ total_external_grid_cost' = w.total_external_grid_cost
    /\ current_external_grid_cost' = w.current_external_grid_cost
    /\ power_flows' = w.power_flows
    /\ raised' = w.raised

\* The grid as a stage of the tick finds it.
Current ==
    World(consumers, plants, inverters, supply_sources, total_supply,
          total_demand, bess_list, total_external_grid_cost,
          current_external_grid_cost, power_flows)

\* The fields update_plot reads from the grid: the flow map, every
\* battery's SOC and the two totals of the title.
Readings ==
    [power_flows |-> power_flows, total_supply |-> total_supply,
     total_demand |-> total_demand,
     soc |-> [i \in 1..Len(bess_list) |-> bess_list[i].soc]]

\* simulate_step is entered and zeroes its accumulators.
TickReset ==
    \E t \in GridTimes, dh \in HouseDemands, di \in IndustryDemands,
       ds \in StationDemands :
        /\ stage = "idle"
        /\ raised = "none"
        /\ nsteps < MaxVizTicks
        /\ Store(ResetAccumulators(Current))
        /\ tick' = << [step |-> nsteps + 1, t |-> t,
                       dem |-> [house |-> dh, industry |-> di,
                                station |-> ds, ev |-> EvDemand],
                       sunlight |-> solar_generation_factor(t, last_weather),
                       wind |-> wind_factor,
                       connections |-> connections,
                       before |-> bess_list,
                       billed_before |-> total_external_grid_cost] >>
        /\ nsteps' = nsteps + 1
        /\ stage' = "demand"
        /\ UNCHANGED <<connections, routing_config, viz_seen, published,
                       batVars, evVars, gcVars, topoVars, routeVars,
                       costVars, genVars, probeVars>>

\* The next stage of a tick whose work so far is w, or the end of the run
\* if w raised.
Proceed(w, next) ==
    /\ Store(w)
    /\ stage' = IF w.raised = "none" THEN next ELSE "idle"
    /\ UNCHANGED <<tick, nsteps, connections, routing_config, viz_seen,
                   batVars, evVars, gcVars, topoVars, routeVars, costVars,
                   genVars, probeVars>>

TickDemand ==
    /\ stage = "demand"
    /\ \E w \in {DemandSums(Current, station_evs, tick[1].dem, tick[1].t)} :
          Proceed(w, "generation")
    /\ UNCHANGED published

TickGeneration ==
    /\ stage = "generation"
    /\ \E w \in {Generation(Current, connections, tick[1].t,
                            tick[1].sunlight, tick[1].wind)} :
          Proceed(w, "balance")
    /\ UNCHANGED published

TickBalance ==
    /\ stage = "balance"
    /\ \E w \in {Balance(Current, tick[1].t, duration_h)} :
          Proceed(w, "route")
    /\ UNCHANGED published

\* route_power_to_consumers, after which simulate_step returns.
TickRoute ==
    /\ stage = "route"
    /\ \E w \in {Routed(Current, connections,
                        get_routing(routing_config).map, station_evs,
                        tick[1].dem, tick[1].t)} :
          /\ Proceed(w, "idle")
          /\ published' =
                IF w.raised = "none"
                THEN [power_flows |-> w.power_flows,
                      total_supply |-> w.total_supply,
                      total_demand |-> w.total_demand,
                      soc |-> [i \in 1..Len(w.bess_list) |->
                                  w.bess_list[i].soc]]
                ELSE published

\* GridVisualizer.update_plot on the visualization thread, at any moment
\* of the main loop: it reads the grid and writes its own graph only.
UpdatePlot ==
    /\ raised = "none"
    /\ viz_seen' = << [read |-> Readings, completed |-> published,
                       stage |-> stage] >>
    /\ UNCHANGED <<stage, published, gridVars, batVars, evVars, gcVars,
                   topoVars, routeVars, costVars, genVars, probeVars>>

NextVisualizer ==
    TickReset \/ TickDemand \/ TickGeneration \/ TickBalance \/ TickRoute
        \/ UpdatePlot

InitVisualizerSpec == InitBat /\ InitSite /\ InitGc /\ InitGrid /\ InitHarness

SpecVisualizer == InitVisualizerSpec /\ [][NextVisualizer]_vars

\* ------------------------------------------------- visualizer properties
\* A step of the visualization thread leaves the grid, its topology, flows,
\* batteries, consumers and the EV population as they were.
VisualizerStep ==
    viz_seen' # viz_seen => UNCHANGED <<gridVars, evVars, batVars, gcVars>>

\* C20: the visualization thread only reads: update_plot and build_graph
\* never write to the grid, its topology, power_flows, the batteries, the
\* consumers or the EV manager, and what they read is what a completed tick
\* left, under every interleaving with simulate_step.
C20_VisualizerReadsCompletedTick ==
    /\ [](viz_seen # <<>> => viz_seen[1].read = viz_seen[1].completed)
    /\ [][VisualizerStep]_vars

\* update_plot ran between two stages of a tick and read a total demand
\* that no completed tick had left.
C20_Witness ==
    /\ viz_seen # <<>>
    /\ viz_seen[1].stage # "idle"
    /\ viz_seen[1].read.total_demand # viz_seen[1].completed.total_demand
    /\ viz_seen[1].read.soc = viz_seen[1].completed.soc

\* ---------------------------------------------------- battery loop alone
\* The residuals the loop is entered with: shortfalls, nothing, surpluses.
LoopNets == {-150, -60, -30, 0, 10, 40, 110}

\* simulation.py:333-343 run on loop_bess with a residual of its own; what
\* the loop leaves in the batteries stays for the next run.
RunBessLoop ==
    \E net \in LoopNets, d \in DurSet :
        \E w \in {BessLoop([bess_list |-> loop_bess, net_power |-> net,
                            served |-> <<>>], 1, d, Night)} :
            /\ loop_runs < MaxLoopRuns
            /\ loop_bess' = w.bess_list
            /\ loop_run' = << [net |-> net, duration_h |-> d,
                               before |-> loop_bess,
                               served |-> w.served,
                               net_after |-> w.net_power] >>
            /\ loop_runs' = loop_runs + 1
            /\ UNCHANGED <<batVars, evVars, gcVars, gridVars, topoVars,
                           routeVars, costVars, genVars, vizVars,
                           conditioned, soloVars>>

SpecLoop == Init /\ [][RunBessLoop]_vars

\* ---------------------------------------------------- battery loop order
RECURSIVE ClaimResidual(_, _)
RECURSIVE ClaimPower(_, _)
\* What the k-th battery is to be asked for: "charge", "discharge" or
\* "none", from the residual the batteries before it left.
ClaimOp(r, k) ==
    IF ClaimResidual(r, k) > 0 /\ r.before[k].soc < 100 THEN "charge"
    ELSE IF ClaimResidual(r, k) < 0 /\ r.before[k].soc > 0 THEN "discharge"
    ELSE "none"

\* The power of that request, positive into the battery.
ClaimPower(r, k) ==
    LET b == r.before[k]
        res == ClaimResidual(r, k)
    IN  IF ClaimOp(r, k) = "charge"
        THEN Min2(res, Min2(b.max_charge_power_kw,
                 (b.capacity_kwh - b.remaining_capacity) \div r.duration_h))
        ELSE IF ClaimOp(r, k) = "discharge"
        THEN -Min2(-res, Min2(b.max_discharge_power_kw,
                  b.remaining_capacity \div r.duration_h))
        ELSE 0

\* The residual net after batteries 1..k-1.
ClaimResidual(r, k) ==
    IF k = 1 THEN r.net
    ELSE ClaimResidual(r, k - 1) - ClaimPower(r, k - 1)

\* C21: batteries are serviced in bess_list order: the k-th battery is
\* charged with min(residual after batteries 1..k-1, max_charge_power_kw,
\* (capacity - remaining) / duration_h) when that residual is > 0 and its
\* SOC < 100, discharged with min(|residual|, max_discharge_power_kw,
\* remaining / duration_h) when the residual is < 0 and its SOC > 0, and
\* left alone otherwise; net shrinks in magnitude by exactly that power, so
\* a later battery only sees what the earlier ones left.
C21_RegistrationOrder ==
    loop_run # NoData =>
        LET r == loop_run[1]
        IN  /\ \A k \in 1..Len(r.before) :
                LET b == r.before[k]
                    a == loop_bess[k]
                    p == ClaimPower(r, k)
                IN  /\ Abs(p) <= Abs(ClaimResidual(r, k))
                    /\ ClaimOp(r, k) = "charge" =>
                           /\ a.mode = "charging"
                           /\ a.power = p
                           /\ a.remaining_capacity =
                                  Min2(b.capacity_kwh,
                                       b.remaining_capacity
                                           + (p * r.duration_h
                                                * b.charge_efficiency.num)
                                               \div b.charge_efficiency.den)
                    /\ ClaimOp(r, k) = "discharge" =>
                           /\ a.mode = "discharging"
                           /\ a.power = p
                           /\ a.remaining_capacity =
                                  Max2(0,
                                       b.remaining_capacity
                                           - ((-p) * r.duration_h
                                                * b.discharge_efficiency.den)
                                               \div b.discharge_efficiency.num)
                    /\ ClaimOp(r, k) = "none" =>
                           /\ a.mode = b.mode
                           /\ a.power = b.power
                           /\ a.remaining_capacity = b.remaining_capacity
                           /\ a.cycle_count = b.cycle_count
            /\ r.net_after = ClaimResidual(r, Len(r.before) + 1)
            /\ Abs(r.net_after) <= Abs(r.net)

\* A surplus of 110 met two emptied batteries: the first took its limit
\* of 100, the second the 10 that were left.
C21_Witness ==
    /\ loop_run # NoData
    /\ loop_run[1].net = 110
    /\ loop_run[1].before[1].remaining_capacity = 0
    /\ loop_bess[1].mode = "charging"
    /\ loop_bess[1].power = 100
    /\ loop_bess[2].mode = "charging"
    /\ loop_bess[2].power = 10
    /\ loop_run[1].net_after = 0

\* ----------------------------------------------------- loss loops alone
\* What the inverters handed to the grid, in millionths of the grid's
\* power unit so that three efficiencies in hundredths divide it; a plant
\* whose link is disabled keeps the 0 of the reset.
InverterOutputs == {0, 1000000, 2500000}

\* Grid.substations and Grid.transformers after any number of
\* add_substation and add_transformer calls.
SubstationLists ==
    { <<>>, substations,
      substations \o << GridBase("Substation", 90).obj >> }
TransformerLists == { <<>>, transformers }

\* simulation.py:324-331 run on what the generation loops left.
ConditionSupply ==
    \E outs \in [PlantIds -> InverterOutputs], subs \in SubstationLists,
       trans \in TransformerLists :
        \E w \in {LossLoops([supply_sources |-> outs,
                             total_supply |->
                                 SupplyOf(outs, solar_plants, 1)
                                     + SupplyOf(outs, wind_plants, 1)],
                            subs, trans)} :
            /\ conditioned' = << [outputs |-> outs, subs |-> subs,
                                  trans |-> trans,
                                  supply_sources |-> w.supply_sources,
                                  total_supply |-> w.total_supply] >>
            /\ UNCHANGED <<batVars, evVars, gcVars, gridVars, topoVars,
                           routeVars, costVars, genVars, vizVars, loopVars,
                           soloVars>>

SpecLosses == Init /\ [][ConditionSupply]_vars

\* ------------------------------------------------------- loss properties
RECURSIVE Attenuated(_, _, _)
\* x times the efficiencies of conds from position i on.
Attenuated(x, conds, i) ==
    IF i > Len(conds) THEN x
    ELSE Attenuated((x * conds[i].efficiency) \div 100, conds, i + 1)

\* C22: after the conditioning step total_supply is the sum of the
\* inverter outputs times the product of all substation and all
\* transformer efficiencies, every supply_sources entry is that plant's
\* inverter output times the same product, and the entries add up to
\* total_supply.
C22_ConditionedSupply ==
    conditioned # NoData =>
        LET r == conditioned[1]
            all == r.subs \o r.trans
        IN  /\ r.total_supply =
                   Attenuated(SumOver(r.outputs, PlantIds), all, 1)
            /\ \A p \in PlantIds :
                   r.supply_sources[p] = Attenuated(r.outputs[p], all, 1)
            /\ SumOver(r.supply_sources, PlantIds) = r.total_supply

\* Two plants with different outputs behind two substations and a
\* transformer: 0.99 * 0.90 * 0.97 of each.
C22_Witness ==
    /\ conditioned # NoData
    /\ Len(conditioned[1].subs) = 2
    /\ Len(conditioned[1].trans) = 1
    /\ conditioned[1].outputs["SolarSite_1"] = 2500000
    /\ conditioned[1].outputs["WindSite_1"] = 1000000
    /\ conditioned[1].supply_sources["SolarSite_1"] = 2160675
    /\ conditioned[1].total_supply = 3024945

\* ------------------------------------------------------- wind properties
\* C23: in every tick an enabled wind plant's supply is its generation
\* function applied to the tick's wind driver, passed through its
\* inverter: a positive wind driver gives that plant a positive
\* supply_sources entry.
C23_WindSupply ==
    (/\ tick # <<>>
     /\ raised = "none"
     /\ is_connected(tick[1].connections, wind_plants[1], "Grid")
     /\ tick[1].wind > 0)
    => supply_sources[wind_plants[1]] > 0

\* A tick that ran to its end with the wind plant linked and the wind
\* driver at 0.60: the plant produced nothing.
C23_Witness ==
    /\ tick # <<>>
    /\ raised = "none"
    /\ is_connected(tick[1].connections, wind_plants[1], "Grid")
    /\ tick[1].wind = wind_factor
    /\ wind_factor > 0
    /\ plants[wind_plants[1]].current_output = 0
    /\ supply_sources[wind_plants[1]] = 0

\* ------------------------------------------------------ consumer properties
\* The efficiency and voltage main() constructs each consumer with.
ConstructedWith(r) ==
    IF r[1] = "house" THEN [efficiency |-> Num(19, 20), voltage |-> Num(230, 1)]
    ELSE IF r[1] = "industry"
    THEN [efficiency |-> Num(17, 20), voltage |-> Num(415, 1)]
    ELSE IF r[1] = "station"
    THEN [efficiency |-> Num(19, 20), voltage |-> Num(400, 1)]
    ELSE [efficiency |-> Num(9, 10), voltage |-> Num(400, 1)]

\* C24: every consumer variant constructed with efficiency e > 0, voltage v
\* and identifier i stores exactly that efficiency, voltage and id, and its
\* get_demand divides by e and by v without raising.
C24_ConsumerStoresArguments ==
    /\ \A r \in ConsumerRefs :
           /\ consumers[r].efficiency = ConstructedWith(r).efficiency
           /\ consumers[r].voltage = ConstructedWith(r).voltage
           /\ consumers[r].id = r
    /\ raised # "ZeroDivisionError"

\* A tick asked the house for its demand: the house holds the voltage
\* argument as its efficiency and reports demand / 230 plus appliances.
C24_Witness ==
    /\ tick # <<>>
    /\ raised = "none"
    /\ tick[1].dem.house = 4600
    /\ ConstructedWith(house_refs[1]).efficiency = Num(19, 20)
    /\ consumers[house_refs[1]].efficiency = Num(230, 1)
    /\ consumers[house_refs[1]].id = house_refs[1]
    /\ consumers[house_refs[1]].power = 4600 \div 230 + appliance_demand
    /\ consumers[industry_refs[1]].voltage = Num(230, 1)

\* The demand each object of refs reported last, added up.
RECURSIVE ReportedDemand(_, _)
ReportedDemand(refs, i) ==
    IF i > Len(refs) THEN 0
    ELSE consumers[refs[i]].power + ReportedDemand(refs, i + 1)

\* The vehicles plugged in at any station, as consumer references.
PluggedEvs ==
    {<<"ev", e>> : e \in {x \in EvIds :
                             \E st \in StationIds : SeqHas(station_evs[st], x)}}

\* C25: total_demand of a tick is the sum of the house, industry and
\* station demands and of the demands of the vehicles connected to
\* stations, and no station's own demand, connected vehicles included,
\* exceeds its max_power_kw, however many vehicles are connected.
C25_TotalDemand ==
    tick # <<>> =>
        /\ total_demand =
               ReportedDemand(house_refs, 1)
                   + ReportedDemand(industry_refs, 1)
                   + ReportedDemand(station_refs, 1)
                   + SumOver([r \in PluggedEvs |-> consumers[r].power],
                             PluggedEvs)
        /\ \A i \in 1..Len(station_refs) :
               consumers[station_refs[i]].power <= max_power_kw

\* A tick with a vehicle at a station: the house and the station's base
\* demand were taken, the vehicle's get_demand raised, and total_demand
\* was never assigned.
C25_Witness ==
    /\ tick # <<>>
    /\ PluggedEvs # {}
    /\ tick[1].dem.house > 0
    /\ tick[1].dem.industry = 0
    /\ tick[1].dem.station = 0
    /\ consumers[house_refs[1]].power > 0
    /\ raised = "ZeroDivisionError"
    /\ total_demand = 0

\* --------------------------------------------------- cycle count property
\* C26: cycle_count never decreases; a discharge call raises it by exactly
\* 1 iff remaining_capacity is exactly 0 after the call; charge and
\* calculate_storage_cost leave it alone; over the ticks' battery loops it
\* rises only in the run in which the battery's remaining_capacity
\* reaches 0.
C26_CycleCount ==
    loop_run # NoData =>
        \A k \in 1..Len(loop_bess) :
            LET b == loop_run[1].before[k]
                a == loop_bess[k]
            IN  /\ a.cycle_count >= b.cycle_count
                /\ a.cycle_count \in {b.cycle_count, b.cycle_count + 1}
                /\ a.cycle_count = b.cycle_count + 1
                       <=> (/\ ClaimOp(loop_run[1], k) = "discharge"
                            /\ a.remaining_capacity = 0)
                /\ a.cycle_count > b.cycle_count
                       => b.remaining_capacity > 0

\* A shortfall of 150 emptied the first battery, which counts its first
\* cycle; the second gave 20 of its 50 and counts none.
C26_Witness ==
    /\ loop_run # NoData
    /\ loop_run[1].net = -150
    /\ loop_run[1].before[1].remaining_capacity > 0
    /\ loop_run[1].before[1].cycle_count = 0
    /\ loop_bess[1].remaining_capacity = 0
    /\ loop_bess[1].cycle_count = 1
    /\ loop_bess[2].mode = "discharging"
    /\ loop_bess[2].remaining_capacity > 0
    /\ loop_bess[2].cycle_count = 0

\* ------------------------------------------------- cost bucket properties
\* The battery without the fields a storage pricing may write.
WithoutStorageCost(b) ==
    [b EXCEPT !.total_storage_cost = 0, !.current_operation_cost = 0]

\* C27: calculate_storage_cost prices storage only while
\* remaining_capacity > 0: at 0 it returns None and changes nothing;
\* otherwise it adds the storage cost to total_storage_cost and leaves SOC,
\* remaining_capacity, SOH, mode, power, cycle_count and the charging and
\* discharging buckets as they were. charge adds to the charging bucket
\* only, discharge to the discharging bucket only.
C27_CostBuckets ==
    \A i \in 1..Len(calls) :
        LET c == calls[i]
            b == c.before
            a == AfterCall(i)
            ret == storage_cost_data(b, c.duration_h, c.sim_time)
        IN  /\ (c.op = "storage" /\ b.remaining_capacity = 0)
                   => a = b /\ ret = NoData
            /\ (c.op = "storage" /\ b.remaining_capacity > 0)
                   => /\ ret # NoData
                      /\ a.total_storage_cost
                             = b.total_storage_cost + ret[1]
                      /\ WithoutStorageCost(a) = WithoutStorageCost(b)
            /\ c.op = "charge"
                   => /\ a.total_charging_cost
                             = b.total_charging_cost
                                   + a.current_operation_cost
                      /\ a.total_discharging_cost = b.total_discharging_cost
                      /\ a.total_storage_cost = b.total_storage_cost
            /\ c.op = "discharge"
                   => /\ a.total_discharging_cost
                             = b.total_discharging_cost
                                   + a.current_operation_cost
                      /\ a.total_charging_cost = b.total_charging_cost
                      /\ a.total_storage_cost = b.total_storage_cost

\* A discharge, a storage pricing of the energy left and a charge, each
\* adding to its own bucket and to no other.
C27_Witness ==
    /\ Len(calls) = 3
    /\ calls[1].op = "discharge"
    /\ calls[1].before.total_discharging_cost = 0
    /\ calls[2].op = "storage"
    /\ calls[2].before.remaining_capacity > 0
    /\ calls[2].before.total_discharging_cost > 0
    /\ AfterCall(2).total_storage_cost > 0
    /\ AfterCall(2).total_discharging_cost
           = calls[2].before.total_discharging_cost
    /\ calls[3].op = "charge"
    /\ bat.total_charging_cost > 0
    /\ bat.total_storage_cost = AfterCall(2).total_storage_cost

\* ------------------------------------------- ticks under a changing table
\* The driver's ticks with update_routing calls between them.
NextInformational == SimulateStep \/ UpdateRouting

SpecInformational == Init /\ [][NextInformational]_vars

\* --------------------------------------------------- routing is a read-out
\* The grid as the tick finds it.
Before ==
    World(consumers, plants, inverters, supply_sources, total_supply,
          total_demand, bess_list, total_external_grid_cost,
          current_external_grid_cost, power_flows)

\* The tick up to, and without, its routing step.
BeforeRouting ==
    Balance(Generation(DemandSums(ResetAccumulators(Before), station_evs,
                                  tick'[1].dem, tick'[1].t),
                       connections, tick'[1].t, tick'[1].sunlight,
                       tick'[1].wind),
            tick'[1].t, duration_h)

\* The same tick had the routing table never been changed.
UnderDefaultTable ==
    simulate_step(Before, connections, NewRouting, station_evs, tick'[1].t,
                  tick'[1].dem, tick'[1].sunlight, tick'[1].wind,
                  duration_h)

\* What a tick's routing step, and the table it reads, leave alone.
InformationalStep ==
    IsTick =>
        /\ BeforeRouting.raised = "none" =>
               /\ total_supply' = BeforeRouting.total_supply
               /\ total_demand' = BeforeRouting.total_demand
               /\ supply_sources' = BeforeRouting.supply_sources
               /\ bess_list' = BeforeRouting.bess_list
               /\ total_external_grid_cost'
                      = BeforeRouting.total_external_grid_cost
               /\ current_external_grid_cost'
                      = BeforeRouting.current_external_grid_cost
               /\ connections' = connections
               /\ routing_config' = routing_config
        /\ raised' = UnderDefaultTable.raised
        /\ tick'[1].net_power = UnderDefaultTable.net_power
        /\ tick'[1].served = UnderDefaultTable.served
        /\ bess_list' = UnderDefaultTable.bess_list
        /\ total_external_grid_cost'
               = UnderDefaultTable.total_external_grid_cost
        /\ current_external_grid_cost'
               = UnderDefaultTable.current_external_grid_cost

\* C28: the routing step is informational only: route_power_to_consumers
\* leaves total_supply, total_demand, supply_sources, every battery, the
\* topology, the routing table and the external-grid cost totals as they
\* were, and a change of the routing table between ticks changes no later
\* tick's net power, battery charge or discharge powers or external-grid
\* import.
C28_RoutingInformational == [][InformationalStep]_vars

\* A tick ran to its end on a table whose solar shares had been replaced:
\* the first battery covered the demand of 30.
C28_Witness ==
    /\ tick # <<>>
    /\ raised = "none"
    /\ routing_config.solar_to_houses = 20
    /\ routing_config.solar_to_stations = 50
    /\ total_demand = 30
    /\ tick[1].net_power = 0
    /\ tick[1].served[1] = [op |-> "discharge", power |-> 30, net |-> -30]
    /\ bess_list[1].power = -30

\* ------------------------------------------------- substation link property
\* The aggregate flows from the grid to the consumer classes.
ClassFlows ==
    {<<"Grid", "Houses">>, <<"Grid", "Industries">>, <<"Grid", "Stations">>}

\* C29: the topology gates the aggregate flow to the consumer segments: in
\* a tick with positive supply the Grid->Houses/Industries/Stations flows
\* are recorded in power_flows iff the Grid->substation link that
\* add_substation registered is enabled; after that link is disabled the
\* next tick records none of them, after it is enabled again they are
\* recorded again.
C29_SubstationGate ==
    (/\ tick # <<>>
     /\ DemandReturns(tick[1])
     /\ PostLossSolar(tick[1]) > 0)
    => IF is_connected(tick[1].connections, "Grid", conditioner_id)
       THEN ClassFlows \subseteq DOMAIN power_flows
       ELSE ClassFlows \cap DOMAIN power_flows = {}

\* The third step of a run is a tick with the sun up and the substation
\* link enabled, after two topology events or ticks: no flow is recorded.
C29_Witness ==
    /\ tick # <<>>
    /\ tick[1].step = 3
    /\ DemandReturns(tick[1])
    /\ PostLossSolar(tick[1]) > 0
    /\ is_connected(tick[1].connections, "Grid", conditioner_id)
    /\ ~is_connected(tick[1].connections, "Grid", "Substation")
    /\ ClassFlows \cap DOMAIN power_flows = {}

\* ------------------------------------------- plant batteries and the grid
\* connect_to_grid or disconnect_from_grid called on a battery of the
\* list between runs of the battery loop.
ConnectToGrid ==
    \E k \in 1..Len(loop_bess) :
        /\ loop_runs < MaxLoopRuns
        /\ loop_bess' = [loop_bess EXCEPT ![k] = connect_to_grid(@)]
        /\ loop_run' = NoData
        /\ loop_runs' = loop_runs + 1
        /\ UNCHANGED <<batVars, evVars, gcVars, gridVars, topoVars,
                       routeVars, costVars, genVars, vizVars, conditioned,
                       soloVars>>

DisconnectFromGrid ==
    \E k \in 1..Len(loop_bess) :
        /\ loop_runs < MaxLoopRuns
        /\ loop_bess' = [loop_bess EXCEPT ![k] = disconnect_from_grid(@)]
        /\ loop_run' = NoData
        /\ loop_runs' = loop_runs + 1
        /\ UNCHANGED <<batVars, evVars, gcVars, gridVars, topoVars,
                       routeVars, costVars, genVars, vizVars, conditioned,
                       soloVars>>

NextPlantBess == RunBessLoop \/ ConnectToGrid \/ DisconnectFromGrid

SpecPlantBess == Init /\ [][NextPlantBess]_vars

\* ------------------------------------------------------- mode properties
\* C30: every battery's mode, that of a PowerPlantBESS after
\* connect_to_grid or disconnect_from_grid included, is one of idle,
\* charging, discharging; it is charging right after a charge call and
\* discharging right after a discharge call, whatever the mode before.
C30_ModeSet ==
    /\ \A k \in 1..Len(loop_bess) :
           loop_bess[k].mode \in {"idle", "charging", "discharging"}
    /\ loop_run # NoData =>
           \A k \in 1..Len(loop_bess) :
               /\ ClaimOp(loop_run[1], k) = "charge"
                      => loop_bess[k].mode = "charging"
               /\ ClaimOp(loop_run[1], k) = "discharge"
                      => loop_bess[k].mode = "discharging"

\* The first plant battery gave 30 to a shortfall and was then connected
\* to the grid: its power still reads -30, its mode "grid-connected".
C30_Witness ==
    /\ loop_run = NoData
    /\ loop_runs = 2
    /\ loop_bess[1].power = -30
    /\ loop_bess[1].grid_connected
    /\ loop_bess[1].mode = "grid-connected"
    /\ loop_bess[2].mode = "idle"

\* ------------------------------------------- energy credited on discharge
\* C31: for every battery the loop discharges, the energy credited to the
\* grid (the discharge power added back to net, times duration_h) is at
\* most discharge_efficiency times the decrease of remaining_capacity in
\* that call, the call that empties the battery included.  The decrease
\* is a whole number of energy units, so the comparison allows the one
\* unit the floor may have taken.
C31_DischargeConserves ==
    loop_run # NoData =>
        LET r == loop_run[1]
        IN  \A k \in 1..Len(r.before) :
                LET b == r.before[k]
                    a == loop_bess[k]
                    credited == (-a.power) * r.duration_h
                    decrease == b.remaining_capacity - a.remaining_capacity
                IN  ClaimOp(r, k) = "discharge" =>
                        credited * b.discharge_efficiency.den
                            < b.discharge_efficiency.num * (decrease + 1)

\* A shortfall of 150 met the full first battery: it was asked for its
\* limit of 100 for one interval, gave up the 100 it held and is empty,
\* and net was credited with 100, more than 0.95 of what left the battery.
C31_Witness ==
    /\ loop_run # NoData
    /\ loop_run[1].net = -150
    /\ loop_run[1].duration_h = 1
    /\ loop_run[1].before[1].remaining_capacity = 100
    /\ loop_bess[1].mode = "discharging"
    /\ loop_bess[1].power = -100
    /\ loop_bess[1].remaining_capacity = 0
    /\ loop_bess[1].cycle_count = loop_run[1].before[1].cycle_count + 1

\* ------------------------------------------------------ power balance
\* The powers the last tick's battery loop asked for under operation op.
LoopPower(op) ==
    SumOver([i \in 1..Len(tick[1].served) |->
                 IF tick[1].served[i].op = op
                 THEN tick[1].served[i].power ELSE 0],
            1..Len(tick[1].served))

\* simulation.py:344-345: the import the tick asks the external grid for,
\* and the surplus no battery took.
ExternalPowerNeeded == Max2(0, -tick[1].net_power)
UnabsorbedSurplus == Max2(0, tick[1].net_power)

\* The tick got as far as net_power and the battery loop.
ReachedBalance == tick # <<>> /\ Len(tick[1].served) = Len(bess_list)

\* C32: after every simulate_step, total_supply + the battery discharge
\* powers + the external import equals total_demand + the battery charge
\* powers + the unabsorbed surplus, the external import is
\* max(0, total_demand - total_supply - discharge powers), and import and
\* surplus are never both positive.
C32_PowerBalance ==
    tick # <<>> =>
        /\ total_supply + LoopPower("discharge") + ExternalPowerNeeded
               = total_demand + LoopPower("charge") + UnabsorbedSurplus
        /\ ExternalPowerNeeded
               = Max2(0, total_demand - total_supply
                             - LoopPower("discharge"))
        /\ ~(ExternalPowerNeeded > 0 /\ UnabsorbedSurplus > 0)

\* A noon tick with the solar plant linked and a house demand of 30:
\* total_demand was assigned, generate raised, and no battery was asked
\* and no import computed for the 30.
C32_Witness ==
    /\ tick # <<>>
    /\ raised = "KeyError"
    /\ tick[1].t = Noon
    /\ total_demand = 30
    /\ total_supply = 0
    /\ tick[1].served = <<>>
    /\ \A i \in 1..Len(bess_list) :
           bess_list[i].remaining_capacity
               = tick[1].before[i].remaining_capacity

\* ------------------------------------------------- residual inside a tick
\* The residual net the loop held after batteries 1..k of run r.
ResidualAfter(r, k) ==
    IF k < Len(r.served) THEN r.served[k + 1].net ELSE r.net_after

\* C33: within one run of the battery loop the residual net never changes
\* sign and its magnitude never increases: no battery is charged in a run
\* in which another is discharged, and a run that starts with a surplus
\* leaves nothing for the external grid to bill.
C33_ResidualKeepsSign ==
    loop_run # NoData =>
        LET r == loop_run[1]
        IN  /\ \A k \in 1..Len(r.served) :
                /\ r.served[k].net * r.net >= 0
                /\ ResidualAfter(r, k) * r.net >= 0
                /\ r.net = 0 => ResidualAfter(r, k) = 0
                /\ Abs(ResidualAfter(r, k)) <= Abs(r.served[k].net)
            /\ ~ \E j, k \in 1..Len(r.served) :
                     r.served[j].op = "charge"
                         /\ r.served[k].op = "discharge"
            /\ r.net > 0 =>
                   LET w == [raised |-> "none", net_power |-> r.net_after,
                             current_external_grid_cost |-> 0,
                             total_external_grid_cost |-> 0]
                   IN  ExternalImport(w, Night) = w

\* A shortfall of 30 met a first battery holding more than that and a
\* second one that is not empty: the first covered all of it, and the
\* second, reached with a residual of 0, was left alone.
C33_Witness ==
    /\ loop_run # NoData
    /\ loop_run[1].net = -30
    /\ loop_run[1].served[1].op = "discharge"
    /\ loop_run[1].served[1].power = 30
    /\ loop_run[1].served[2].op = "none"
    /\ loop_run[1].served[2].net = 0
    /\ loop_run[1].before[2].soc > 0
    /\ loop_run[1].net_after = 0

\* ---------------------------------------------------- import billing alone
\* What the battery loop may leave in net_power: shortfalls, 0, a surplus.
LoopResiduals == {-30, -10, 0, 20}

\* simulation.py:344-351 at the end of one tick after another of the same
\* grid; an exception of the pricing ends the run.
BillImport ==
    \E net \in LoopResiduals, t \in GridTimes :
        \E w \in {ExternalImportIn(billing.table,
                      [raised |-> "none", net_power |-> net,
                       total_external_grid_cost |->
                           billing.total_external_grid_cost,
                       current_external_grid_cost |->
                           billing.current_external_grid_cost], t)} :
            /\ billing.ticks < MaxBillingTicks
            /\ billing.raised = "none"
            /\ billing' =
                   [billing EXCEPT
                       !.raised = w.raised,
                       !.ticks = @ + 1,
                       !.total_external_grid_cost =
                           w.total_external_grid_cost,
                       !.current_external_grid_cost =
                           w.current_external_grid_cost,
                       !.last = << [net_power |-> net, t |-> t,
                                    total_before |->
                                        billing.total_external_grid_cost,
                                    current_before |->
                                        billing.current_external_grid_cost]
                                >>]
            /\ UNCHANGED <<batVars, evVars, gcVars, gridVars, topoVars,
                           routeVars, costVars, genVars, vizVars, loopVars,
                           conditioned, vehicle>>

\* Grid.__init__ where cost_config.json is found: the calculator holds
\* the file's table from the first tick on.
LoadCostConfig ==
    /\ billing.ticks = 0
    /\ billing.table = generation_costs
    /\ billing' = [billing EXCEPT !.table = ConfiguredGenerationCosts]
    /\ UNCHANGED <<batVars, evVars, gcVars, gridVars, topoVars, routeVars,
                   costVars, genVars, vizVars, loopVars, conditioned,
                   vehicle>>

NextBilling == BillImport \/ LoadCostConfig

SpecBilling == Init /\ [][NextBilling]_vars

\* C34: after a tick that ends with no residual shortfall
\* current_external_grid_cost is 0, even when an earlier tick imported
\* power, total_external_grid_cost is what it was before that tick, and
\* over any sequence of ticks total_external_grid_cost never decreases.
C34_PerTickImportCost ==
    (billing.last # NoData /\ billing.raised = "none") =>
        /\ billing.total_external_grid_cost >= billing.last[1].total_before
        /\ billing.last[1].net_power >= 0 =>
               /\ billing.current_external_grid_cost = 0
               /\ billing.total_external_grid_cost
                      = billing.last[1].total_before

\* A tick without shortfall after a tick that imported: the cumulative
\* cost stayed, and so did the per-tick cost of the earlier import.
C34_Witness ==
    /\ billing.last # NoData
    /\ billing.raised = "none"
    /\ billing.last[1].net_power >= 0
    /\ billing.last[1].current_before > 0
    /\ billing.total_external_grid_cost = billing.last[1].total_before
    /\ billing.current_external_grid_cost = billing.last[1].current_before

\* ------------------------------------------------ batteries left alone
\* C35: a battery the loop neither charges nor discharges (the residual is
\* 0 when it is reached, or it is full under a surplus, or empty under a
\* shortfall) keeps its SOC, remaining_capacity, SOH, cycle_count,
\* voltage, current and temperature, its mode and power and its charging
\* and discharging costs; only its storage cost may grow.
C35_IdleBatteryFrame ==
    loop_run # NoData =>
        LET r == loop_run[1]
        IN  \A k \in 1..Len(r.served) :
                LET b == r.before[k]
                    a == loop_bess[k]
                IN  r.served[k].op = "none" =>
                        /\ r.served[k].net = 0
                               \/ (r.served[k].net > 0 /\ b.soc >= 100)
                               \/ (r.served[k].net < 0 /\ b.soc <= 0)
                        /\ a.soc = b.soc
                        /\ a.remaining_capacity = b.remaining_capacity
                        /\ a.soh = b.soh
                        /\ a.cycle_count = b.cycle_count
                        /\ a.voltage = b.voltage
                        /\ a.current = b.current
                        /\ a.temperature = b.temperature
                        /\ a.mode = b.mode
                        /\ a.power = b.power
                        /\ a.total_charging_cost = b.total_charging_cost
                        /\ a.total_discharging_cost
                               = b.total_discharging_cost
                        /\ a.total_storage_cost >= b.total_storage_cost

\* A shortfall met the first battery empty, as an earlier shortfall left
\* it: it was not asked again and still shows the current, the heat and
\* the power of that discharge, and it has no stored energy to be priced.
C35_Witness ==
    /\ loop_run # NoData
    /\ loop_run[1].net < 0
    /\ loop_run[1].served[1].op = "none"
    /\ loop_run[1].before[1].remaining_capacity = 0
    /\ loop_run[1].before[1].current > 0
    /\ loop_bess[1].current = loop_run[1].before[1].current
    /\ loop_bess[1].temperature > 900
    /\ loop_bess[1].power < 0
    /\ loop_bess[1].total_storage_cost
           = loop_run[1].before[1].total_storage_cost
    /\ loop_run[1].served[2].op = "discharge"

\* ------------------------------------------- manager and stations agree
\* How often ev stands in the connected_evs lists of all stations.
StationCount(ev) ==
    SumOver([st \in StationIds |-> Count(station_evs[st], ev)], StationIds)

\* C36: at every tick boundary each EV of the manager's connected set is
\* in exactly one station's connected_evs, once; no EV of the available
\* set is in any station list; the station occupancies add up to the size
\* of the connected set; and an EV's plugged-in flag is true iff the EV is
\* in the connected set.
C36_ManagerStationsAgree ==
    /\ \A e \in EvIds :
          /\ SeqHas(connected_evs, e) => StationCount(e) = 1
          /\ SeqHas(available_evs, e) => StationCount(e) = 0
          /\ ev_connected[e] <=> SeqHas(connected_evs, e)
    /\ SumOver([st \in StationIds |-> Len(station_evs[st])], StationIds)
           = Len(connected_evs)

\* A vehicle is back in available_evs after a stay at a station (it stands
\* behind one that never left): it is unplugged and on no station list,
\* while the vehicle still connected is on exactly one.
C36_Witness ==
    /\ Len(connected_evs) = 1
    /\ Len(available_evs) = 2
    /\ available_evs[2] < available_evs[1]
    /\ ~ev_connected[available_evs[2]]
    /\ StationCount(available_evs[2]) = 0
    /\ ev_connected[connected_evs[1]]
    /\ StationCount(connected_evs[1]) = 1

\* ------------------------------------------------ demand once per tick
\* The house as one evaluation of its demand, with the cost of that
\* demand accrued once, leaves it.
HouseAfterOneDemand(dem, t) ==
    ConsumerBase_get_demand(consumers[house_refs[1]], dem.house, t).obj

\* Over one simulate_step the house's cumulative consumption cost grows
\* by the cost of that tick's demand, taken once.
HouseCostStep ==
    IsTick =>
        consumers'[house_refs[1]].total_consumption_cost
            = HouseAfterOneDemand(tick'[1].dem, tick'[1].t)
                  .total_consumption_cost

\* C37: each consumer's demand is evaluated, and its consumption cost
\* accrued, exactly once per simulate_step: over one tick a house's
\* cumulative consumption cost grows by exactly the cost of that tick's
\* demand.
C37_DemandOncePerTick == [][HouseCostStep]_vars

\* The first tick, at night with a house demand the batteries cover, ran
\* to its end: the house was asked by the demand sums and again by the
\* routing, and holds twice the cost of its demand.
C37_Witness ==
    /\ tick # <<>>
    /\ nsteps = 1
    /\ raised = "none"
    /\ tick[1].t = Night
    /\ tick[1].dem.house = 4600
    /\ consumers[house_refs[1]].power = 20 + appliance_demand
    /\ consumers[house_refs[1]].current_operation_cost
           = calculate_consumer_cost(20, "house", Night).total
    /\ consumers[house_refs[1]].total_consumption_cost
           = 2 * calculate_consumer_cost(20, "house", Night).total

\* ------------------------------------------------- electric vehicle alone
\* What ev_demand_function may return, and the current argument a
\* vehicle is built with (the driver leaves the default 0.0).
EvDemands == {0, 4000}
EvCurrents == {Num(0, 1), Num(16, 1)}

\* vehicle after a call op that left the object as obj.
VehicleCall(op, obj, args, ret, raised_) ==
    [obj |-> obj, calls |-> vehicle.calls + 1,
     last |-> << [op |-> op, before |-> vehicle.obj, args |-> args,
                  ret |-> ret, raised |-> raised_] >>]

\* ElectricVehicle(...) with its EVBattery, replacing the vehicle at hand.
BuildVehicle ==
    \E c \in EvCurrents :
        /\ vehicle.calls < MaxEvCalls
        /\ vehicle' = VehicleCall("init", NewVehicle(c), <<>>, 0, "none")
        /\ UNCHANGED <<batVars, evVars, gcVars, gridVars, topoVars,
                       routeVars, costVars, genVars, vizVars, loopVars,
                       conditioned, billing>>

PlugIn ==
    /\ vehicle.calls < MaxEvCalls
    /\ vehicle' = VehicleCall("plug_in", plug_in(vehicle.obj), <<>>, 0,
                              "none")
    /\ UNCHANGED <<batVars, evVars, gcVars, gridVars, topoVars, routeVars,
                   costVars, genVars, vizVars, loopVars, conditioned,
                   billing>>

Unplug ==
    /\ vehicle.calls < MaxEvCalls
    /\ vehicle' = VehicleCall("unplug", unplug(vehicle.obj), <<>>, 0,
                              "none")
    /\ UNCHANGED <<batVars, evVars, gcVars, gridVars, topoVars, routeVars,
                   costVars, genVars, vizVars, loopVars, conditioned,
                   billing>>

\* ev.charge_ev(current_time, duration_h=duration_h), simulation.py:668.
ChargeEv ==
    \E dem \in EvDemands, t \in GridTimes, d \in DurSet :
        \E r \in {charge_ev(vehicle.obj, dem, t, d)} :
            /\ vehicle.calls < MaxEvCalls
            /\ vehicle' = VehicleCall("charge_ev", r.obj,
                                      [demand_kw |-> dem, t |-> t,
                                       duration_h |-> d],
                                      r.ret, r.raised)
            /\ UNCHANGED <<batVars, evVars, gcVars, gridVars, topoVars,
                           routeVars, costVars, genVars, vizVars, loopVars,
                           conditioned, billing>>

NextVehicle == BuildVehicle \/ PlugIn \/ Unplug \/ ChargeEv

SpecVehicle == Init /\ [][NextVehicle]_vars

\* The demand get_demand hands to the battery: the demand function's
\* value over the stored efficiency.
VehicleDemand(v, demand_kw) ==
    IF v.ev.efficiency.num > 0
    THEN (demand_kw * v.ev.efficiency.den) \div v.ev.efficiency.num
    ELSE demand_kw

\* charge_ev on a vehicle that is not plugged in returns 0 and leaves the
\* battery, charging_status, power and the cost accumulators alone.
UnpluggedChargeIsNoOp ==
    vehicle.last # NoData =>
        LET c == vehicle.last[1]
        IN  (c.op = "charge_ev" /\ ~c.before.connected) =>
                /\ c.raised = "none"
                /\ c.ret = 0
                /\ vehicle.obj = c.before

\* unplug resets charging_status to idle and drops the flag.
UnplugResets ==
    vehicle.last # NoData =>
        (vehicle.last[1].op = "unplug" =>
             /\ vehicle.obj.charging_status = "idle"
             /\ ~vehicle.obj.connected
             /\ vehicle.obj.battery = vehicle.last[1].before.battery)

\* C38: charge_ev on an EV that is not plugged in returns 0 and leaves the
\* EV's battery, charging_status, power and cost accumulators unchanged;
\* on a plugged-in EV it charges the EV's own battery with the EV's demand
\* for the tick duration (clamped to the battery's max charge power and
\* capacity) and sets charging_status to charging; unplug resets
\* charging_status to idle.
C38_ChargeEv ==
    /\ UnpluggedChargeIsNoOp
    /\ UnplugResets
    /\ vehicle.last # NoData =>
           LET c == vehicle.last[1]
           IN  (c.op = "charge_ev" /\ c.before.connected) =>
                   /\ c.raised = "none"
                   /\ c.ret = VehicleDemand(c.before, c.args.demand_kw)
                   /\ vehicle.obj.battery
                          = charge(c.before.battery, c.ret,
                                   c.args.duration_h, c.args.t)
                   /\ vehicle.obj.charging_status = "charging"
                   /\ vehicle.obj.connected

\* The vehicle as the driver builds it was plugged in and charge_ev was
\* called with a demand of 10: the call raised at the current's division,
\* the battery was not called and charging_status is still idle.
C38_Witness ==
    /\ vehicle.last # NoData
    /\ vehicle.last[1].op = "charge_ev"
    /\ vehicle.last[1].before.connected
    /\ vehicle.last[1].before.ev.voltage.num = 0
    /\ vehicle.last[1].args.demand_kw = 4000
    /\ vehicle.last[1].raised = "ZeroDivisionError"
    /\ vehicle.obj.ev.power = 10
    /\ vehicle.obj.battery = vehicle.last[1].before.battery
    /\ vehicle.obj.charging_status = "idle"

====
